---- MODULE Spec2Model ----
(***************************************************************************)
(* Running-event aggregation: the merge / dedup / past-filter / sort       *)
(* pipeline (fetchAllEvents), the query filter (applyFilters) and the two  *)
(* cache layers in front of them (the in-process cache of server.js and    *)
(* the edge cache of the Pages Functions).                                 *)
(*                                                                         *)
(* Conventions.                                                            *)
(*  - A JavaScript string is a sequence of one-character strings; the      *)
(*    value null is the one-element sequence Null, which no string equals. *)
(*  - Times are minutes since the epoch (TLC integers are 32 bits wide and *)
(*    epoch milliseconds of the year 2026 do not fit); every time the code *)
(*    compares is a whole number of minutes in the model.                  *)
(*  - A time-zone offset is in minutes east of UTC (+330 is IST).          *)
(***************************************************************************)
EXTENDS Integers, Sequences, FiniteSets, TLC

VARIABLES
    cache,      \* server.js: let cache = { events, fetchedAt }
    edge,       \* caches.default entry under /api/_events_cache
    variant,    \* which deployment runs: "inproc" (server.js) or "edge"
    now,        \* the wall clock, Date.now()
    ticks,      \* how often the clock has advanced
    tz,         \* the server's time-zone offset
    reqs,       \* the HTTP requests, one record per connection slot
    prewarm,    \* the start-up pre-warm of app.listen's callback
    sites,      \* what the source sites and the manual list deliver right now
    sent,       \* the response the last step sent, if it sent one
    run         \* one invocation of fetchAllEvents on given extractor outcomes

vars == <<cache, edge, variant, now, ticks, tz, reqs, prewarm, sites, sent, run>>

-----------------------------------------------------------------------------
(* Strings *)

Null == <<"null">>

\* a value that is no string and not null (a number of the source's JSON)
NotAString == <<"number">>

UpperChars == <<"A","B","C","D","E","F","G","H","I","J","K","L","M",
                "N","O","P","Q","R","S","T","U","V","W","X","Y","Z">>
LowerChars == <<"a","b","c","d","e","f","g","h","i","j","k","l","m",
                "n","o","p","q","r","s","t","u","v","w","x","y","z">>
DigitChars == <<"0","1","2","3","4","5","6","7","8","9">>

Range(s) == {s[i] : i \in DOMAIN s}

\* String.prototype.toLowerCase, one character
LowerOf == [c \in Range(UpperChars) |->
              LowerChars[CHOOSE i \in DOMAIN UpperChars : UpperChars[i] = c]]

LowerChar(c) == IF c \in DOMAIN LowerOf THEN LowerOf[c] ELSE c

toLowerCase(s) == [i \in DOMAIN s |-> LowerChar(s[i])]

\* the character class [a-z0-9]
AlnumChars == Range(LowerChars) \cup Range(DigitChars)

IsAlnum(c) == c \in AlnumChars

\* s.replace(/[^a-z0-9]/g, '')
RECURSIVE StripNonAlnum(_)
StripNonAlnum(s) ==
    IF s = <<>> THEN <<>>
    ELSE (IF IsAlnum(Head(s)) THEN <<Head(s)>> ELSE <<>>) \o StripNonAlnum(Tail(s))

\* s.slice(0, n)
Slice(s, n) == SubSeq(s, 1, IF Len(s) < n THEN Len(s) ELSE n)

\* s.includes(sub)
Includes(s, sub) ==
    \E i \in 0..(Len(s) - Len(sub)) : SubSeq(s, i + 1, i + Len(sub)) = sub

\* truthiness of a string-or-null value: null and '' are falsy
Truthy(s) == s # Null /\ s # <<>>

-----------------------------------------------------------------------------
(* Dates *)

MinPerDay == 24 * 60

DigitOf == [c \in Range(DigitChars) |->
              (CHOOSE i \in DOMAIN DigitChars : DigitChars[i] = c) - 1]

DigitVal(c) == DigitOf[c]
IsDigit(c) == c \in DOMAIN DigitOf

\* days since 1970-01-01 of the civil date y-m-d (proleptic Gregorian)
DaysFromCivil(y, m, d) ==
    LET yy  == IF m <= 2 THEN y - 1 ELSE y
        era == yy \div 400
        yoe == yy - era * 400
        mp  == (m + 9) % 12
        doy == (153 * mp + 2) \div 5 + d - 1
        doe == yoe * 365 + yoe \div 4 - yoe \div 100 + doy
    IN  era * 146097 + doe - 719468

\* the YYYY-MM-DD form
IsISODate(s) ==
    /\ s # Null
    /\ Len(s) = 10
    /\ s[5] = "-" /\ s[8] = "-"
    /\ \A i \in {1, 2, 3, 4, 6, 7, 9, 10} : IsDigit(s[i])

NaN == -1000000000

\* new Date(s).getTime() for a date-only string: midnight UTC of that day;
\* NaN for a string that is no date
DateTime(s) ==
    IF IsISODate(s)
    THEN LET y == DigitVal(s[1]) * 1000 + DigitVal(s[2]) * 100
                  + DigitVal(s[3]) * 10 + DigitVal(s[4])
             m == DigitVal(s[6]) * 10 + DigitVal(s[7])
             d == DigitVal(s[9]) * 10 + DigitVal(s[10])
         IN  DaysFromCivil(y, m, d) * MinPerDay
    ELSE NaN

\* new Date().setHours(0, 0, 0, 0): the epoch time of the local midnight that
\* starts the calendar day of t in a zone off minutes east of UTC
LocalMidnight(t, off) == ((t + off) \div MinPerDay) * MinPerDay - off

\* the local calendar day (days since the epoch) of t in that zone
LocalDay(t, off) == (t + off) \div MinPerDay

-----------------------------------------------------------------------------
(* Events and the aggregator (fetchAllEvents) *)

\* Promise.allSettled outcomes of the extractors
Fulfilled(batch) == [status |-> "fulfilled", value |-> batch]
Rejected == [status |-> "rejected", value |-> <<>>]

\* `${x}` of a string-or-null value
TemplateString(v) == IF v = Null THEN <<"n","u","l","l">> ELSE v

KeyLen == 28

\* (mutant) the key without lowercasing the title
DedupKey_NoLower(e) ==
    Slice(StripNonAlnum(IF Truthy(e.title) THEN e.title ELSE <<>>), KeyLen)
        \o <<"-">> \o TemplateString(e.startDate)

\* the dedup key of an event
DedupKey(e) ==
    Slice(StripNonAlnum(toLowerCase(IF Truthy(e.title) THEN e.title ELSE <<>>)), KeyLen)
        \o <<"-">> \o TemplateString(e.startDate)

\* (mutant) Promise.all semantics: one rejection loses every batch
ConcatBatches_AllOrNothing(r1, r2, r3, manual) ==
    IF \E r \in {r1, r2, r3} : r.status = "rejected"
    THEN manual
    ELSE r1.value \o r2.value \o r3.value \o manual

\* events.push(...r.value) for the fulfilled extractors, then the manual events
ConcatBatches(r1, r2, r3, manual) ==
    (IF r1.status = "fulfilled" THEN r1.value ELSE <<>>)
        \o (IF r2.status = "fulfilled" THEN r2.value ELSE <<>>)
        \o (IF r3.status = "fulfilled" THEN r3.value ELSE <<>>)
        \o manual

\* events.filter(e => { if (seen.has(key)) return false; seen.add(key); return true })
RECURSIVE DedupFrom(_, _)
DedupFrom(events, seen) ==
    IF events = <<>> THEN <<>>
    ELSE LET key == DedupKey(Head(events))
         IN  IF key \in seen
             THEN DedupFrom(Tail(events), seen)
             ELSE <<Head(events)>> \o DedupFrom(Tail(events), seen \cup {key})

Dedup(events) == DedupFrom(events, {})

\* e.startDate && new Date(e.startDate).getTime() >= todayMs
\* (a comparison with NaN is false)
IsUpcoming(e, todayMs) ==
    /\ Truthy(e.startDate)
    /\ DateTime(e.startDate) # NaN
    /\ DateTime(e.startDate) >= todayMs

RemovePast(events, t, off) ==
    SelectSeq(events, LAMBDA e : IsUpcoming(e, LocalMidnight(t, off)))

\* the comparator (a, b) => new Date(a.startDate) - new Date(b.startDate)
CompareDates(a, b) == DateTime(a.startDate) - DateTime(b.startDate)

\* (mutant) an unstable sort: an element goes before its ties
InsertByDate_Unstable(sorted, e) ==
    LET k == Cardinality({i \in DOMAIN sorted : CompareDates(sorted[i], e) < 0})
    IN  SubSeq(sorted, 1, k) \o <<e>> \o SubSeq(sorted, k + 1, Len(sorted))

\* Array.prototype.sort is stable: an element goes behind every element that
\* does not compare greater than it
InsertByDate(sorted, e) ==
    LET k == Cardinality({i \in DOMAIN sorted : CompareDates(sorted[i], e) <= 0})
    IN  SubSeq(sorted, 1, k) \o <<e>> \o SubSeq(sorted, k + 1, Len(sorted))

RECURSIVE SortFrom(_, _)
SortFrom(sorted, rest) ==
    IF rest = <<>> THEN sorted
    ELSE SortFrom(InsertByDate(sorted, Head(rest)), Tail(rest))

SortByDate(events) == SortFrom(<<>>, events)

\* (e.title || '').toLowerCase() raises a TypeError on a title that is truthy
\* and no string; nothing else in fetchAllEvents can raise
fetchAllEventsThrows(r1, r2, r3, manual) ==
    \E i \in DOMAIN ConcatBatches(r1, r2, r3, manual) :
        ConcatBatches(r1, r2, r3, manual)[i].title = NotAString

fetchAllEvents(r1, r2, r3, manual, t, off) ==
    SortByDate(RemovePast(Dedup(ConcatBatches(r1, r2, r3, manual)), t, off))

-----------------------------------------------------------------------------
(* The query filter (applyFilters) *)

\* \w of a regular expression, on lowercased text
IsWordChar(c) == c \in AlnumChars \cup {"_"}

\* /\bpat\b/.test(s) for a pattern of word characters
MatchesWord(s, pat) ==
    \E i \in 0..(Len(s) - Len(pat)) :
        /\ SubSeq(s, i + 1, i + Len(pat)) = pat
        /\ (i = 0 \/ ~IsWordChar(s[i]))
        /\ (i + Len(pat) = Len(s) \/ ~IsWordChar(s[i + Len(pat) + 1]))

distanceMatches(distLabel, filter) ==
    LET d == toLowerCase(IF Truthy(distLabel) THEN distLabel ELSE <<>>)
    IN  CASE filter = <<"5","k">> ->
                 Includes(d, <<"5","k">>) \/ d = <<"5">> \/ Includes(d, <<"5"," ","k">>)
          [] filter = <<"1","0","k">> ->
                 Includes(d, <<"1","0","k">>) \/ d = <<"1","0">>
                     \/ Includes(d, <<"1","0"," ","k">>)
          [] filter = <<"h","a","l","f">> ->
                 Includes(d, <<"h","a","l","f">>) \/ Includes(d, <<"2","1">>)
          [] filter = <<"m","a","r","a","t","h","o","n">> ->
                 \/ /\ Includes(d, <<"m","a","r","a","t","h","o","n">>)
                    /\ ~Includes(d, <<"h","a","l","f">>)
                    /\ ~Includes(d, <<"u","l","t","r","a">>)
                 \/ Includes(d, <<"4","2">>)
          [] filter = <<"u","l","t","r","a">> ->
                 \/ Includes(d, <<"u","l","t","r","a">>)
                 \/ MatchesWord(d, <<"5","0">>)
                 \/ MatchesWord(d, <<"6","0">>)
                 \/ MatchesWord(d, <<"1","0","0">>)
          [] OTHER -> Includes(d, toLowerCase(filter))

\* the 1-based month of the civil date of a day number (days since the epoch)
MonthOfDay(z) ==
    LET zz  == z + 719468
        era == zz \div 146097
        doe == zz - era * 146097
        yoe == (doe - doe \div 1460 + doe \div 36524 - doe \div 146096) \div 365
        doy == doe - (365 * yoe + yoe \div 4 - yoe \div 100)
        mp  == (5 * doy + 2) \div 153
    IN  IF mp < 10 THEN mp + 3 ELSE mp - 9

\* new Date(s).getMonth() + 1: the month of the instant in the server's zone
LocalMonth(s, off) ==
    IF DateTime(s) = NaN THEN NaN
    ELSE MonthOfDay((DateTime(s) + off) \div MinPerDay)

\* parseInt(s): the number its leading digits spell, NaN without one
RECURSIVE DigitsValue(_, _)
DigitsValue(s, acc) ==
    IF s = <<>> \/ ~IsDigit(Head(s)) THEN acc
    ELSE DigitsValue(Tail(s), acc * 10 + DigitVal(Head(s)))

parseInt(s) == IF s = <<>> \/ ~IsDigit(Head(s)) THEN NaN ELSE DigitsValue(s, 0)

All == <<"a","l","l">>

\* (mutant) a distance parameter decides alone: region and month are skipped
KeepsEvent_DistanceAlone(e, q, off) ==
    IF Truthy(q.distance) /\ q.distance # All
    THEN \E i \in DOMAIN e.distances : distanceMatches(e.distances[i], q.distance)
    ELSE /\ (Truthy(q.region) /\ q.region # All) =>
               /\ ~(q.region = <<"i","n","d","i","a">> /\ e.region # "India")
               /\ ~(q.region = <<"g","l","o","b","a","l">> /\ e.region = "India")
         /\ (Truthy(q.month) /\ q.month # All) =>
               LocalMonth(e.startDate, off) = parseInt(q.month)

\* (mutant) region=global treated like region=india
KeepsEvent_GlobalAsIndia(e, q, off) ==
    /\ (Truthy(q.region) /\ q.region # All) =>
          (q.region \in {<<"i","n","d","i","a">>, <<"g","l","o","b","a","l">>}
              => e.region = "India")
    /\ (Truthy(q.distance) /\ q.distance # All) =>
          \E i \in DOMAIN e.distances : distanceMatches(e.distances[i], q.distance)
    /\ (Truthy(q.month) /\ q.month # All) =>
          LocalMonth(e.startDate, off) = parseInt(q.month)

\* the predicate of events.filter in applyFilters; a parameter that is absent
\* is the empty string
KeepsEvent(e, q, off) ==
    /\ (Truthy(q.region) /\ q.region # All) =>
          /\ ~(q.region = <<"i","n","d","i","a">> /\ e.region # "India")
          /\ ~(q.region = <<"g","l","o","b","a","l">> /\ e.region = "India")
    /\ (Truthy(q.distance) /\ q.distance # All) =>
          \E i \in DOMAIN e.distances : distanceMatches(e.distances[i], q.distance)
    /\ (Truthy(q.month) /\ q.month # All) =>
          /\ LocalMonth(e.startDate, off) # NaN
          /\ parseInt(q.month) # NaN
          /\ LocalMonth(e.startDate, off) = parseInt(q.month)

\* (mutant) a filter that also drops the first event it keeps
applyFilters_DropFirst(events, q, off) ==
    LET kept == SelectSeq(events, LAMBDA e : KeepsEvent(e, q, off))
    IN  IF kept = <<>> THEN <<>> ELSE Tail(kept)

applyFilters(events, q, off) == SelectSeq(events, LAMBDA e : KeepsEvent(e, q, off))

-----------------------------------------------------------------------------
(* The inputs the model draws from *)

MaxBatch == 2

Str2(n) == <<DigitChars[(n \div 10) + 1], DigitChars[(n % 10) + 1]>>

\* the date string YYYY-MM-DD of a day of the year 2026
Date2026(m, d) == <<"2","0","2","6","-">> \o Str2(m) \o <<"-">> \o Str2(d)

\* 2026-03-01T00:00Z
Mar1 == DaysFromCivil(2026, 3, 1) * MinPerDay

\* the instants at which an aggregation reads the clock: 02:00Z and 21:00Z
AggNows == {Mar1 + 2 * 60, Mar1 + 21 * 60}

\* US Eastern (UTC-5), UTC, India (UTC+5:30)
TzOffsets == {0 - 300, 0, 330}

\* 27 characters that survive normalisation
Prefix27 == <<"b","e","n","g","a","l","u","r","u","m","i","d","n","i","g","h","t",
              "m","a","r","a","t","h","o","n","2","6">>

Event(id, title, startDate, distances, source) ==
    [id |-> id, title |-> title, startDate |-> startDate,
     distances |-> distances, source |-> source, region |-> "India"]

EvCityRun   == Event("ir-1", <<"C","i","t","y"," ","R","u","n">>, Date2026(3, 1),
                     <<<<"1","0","K">>>>, "indiarunning.com")
EvLongA     == Event("ir-2", Prefix27 \o <<"q","a">>, Date2026(3, 2),
                     <<<<"M","a","r","a","t","h","o","n">>>>, "indiarunning.com")
EvCityRunLc == Event("bi-1", <<"c","i","t","y"," ","r","u","n">>, Date2026(3, 1),
                     <<>>, "bhaagoindia.com")
EvCityRunP  == Event("bi-2", <<"C","i","t","y","-","R","u","n","!">>, Date2026(3, 2),
                     <<>>, "bhaagoindia.com")
EvLongB     == Event("ts-1", <<"B","e","n","g","a","l","u","r","u"," ">> \o
                     SubSeq(Prefix27, 10, 27) \o <<"q","b">>, Date2026(3, 2),
                     <<<<"M","a","r","a","t","h","o","n">>>>, "townscript.com")
EvOldRace   == Event("ts-2", <<"O","l","d"," ","R","a","c","e">>, Date2026(2, 28),
                     <<<<"5","K">>>>, "townscript.com")
EvLongC     == Event("manual-1", Prefix27 \o <<"z">>, Date2026(3, 2),
                     <<<<"H","a","l","f"," ","M","a","r","a","t","h","o","n">>>>, "manual")
EvNoDate    == Event("manual-2", <<"N","o"," ","D","a","t","e">>, Null,
                     <<<<"2","1","K">>>>, "manual")

Pool1 == {EvCityRun, EvLongA}
Pool2 == {EvCityRunLc, EvCityRunP}
Pool3 == {EvLongB, EvOldRace}

\* the hand-curated list is a static file: one of these
ManualLists == {<<>>, <<EvLongC, EvNoDate>>}

SeqsUpTo(S, n) == UNION {[1..k -> S] : k \in 0..n}

Outcomes(pool) == {Rejected} \cup {Fulfilled(b) : b \in SeqsUpTo(pool, MaxBatch)}

-----------------------------------------------------------------------------
(* One invocation of fetchAllEvents, stage by stage *)

NoRun == [pc |-> "none", r1 |-> Rejected, r2 |-> Rejected, r3 |-> Rejected,
          manual |-> <<>>, t |-> 0, off |-> 0, merged |-> <<>>, out |-> <<>>]

InitRun ==
    run \in [pc : {"ready"}, r1 : Outcomes(Pool1), r2 : Outcomes(Pool2),
             r3 : Outcomes(Pool3), manual : ManualLists,
             t : AggNows, off : TzOffsets, merged : {<<>>}, out : {<<>>}]

\* lines 88-126 of server.js on the outcomes held in run
Aggregate ==
    /\ run.pc = "ready"
    /\ run' = [run EXCEPT
                 !.pc = "done",
                 !.merged = Dedup(ConcatBatches(run.r1, run.r2, run.r3, run.manual)),
                 !.out = fetchAllEvents(run.r1, run.r2, run.r3, run.manual,
                                        run.t, run.off)]
    /\ UNCHANGED <<cache, edge, variant, now, ticks, tz, reqs, prewarm, sites, sent>>

-----------------------------------------------------------------------------
(* The cache layers: requests, responses and the two caches *)

Slots == {1, 2}

MaxTicks == 3

\* the clock advances in steps of three hours
TickStep == 3 * 60

\* the process starts at 2026-03-01T02:00Z
StartNow == Mar1 + 2 * 60

\* 6 * 60 * 60 * 1000 ms, in minutes
CACHE_TTL_MS == 6 * 60

\* s-maxage of the edge entry: 6 * 60 * 60 s, in minutes
CACHE_TTL == 6 * 60

NoQuery == [region |-> <<>>, distance |-> <<>>, month |-> <<>>]

\* no parameters, and ?distance=10k&month=3
Queries == {NoQuery, [NoQuery EXCEPT !.distance = <<"1","0","k">>, !.month = <<"3">>]}

\* a source record whose title is a number reaches the aggregator as it is
\* (normaliseIR: title: e.title || e.name || 'Unnamed Event')
EvNumericTitle == Event("ir-9", NotAString, Date2026(3, 2), <<>>, "indiarunning.com")

\* every source down and no manual event
SitesDown == [r1 |-> Rejected, r2 |-> Rejected, r3 |-> Rejected, manual |-> <<>>]

\* what the source sites and the manual list can deliver to an aggregation
Feeds ==
    {SitesDown,
     [r1 |-> Fulfilled(<<EvCityRun>>), r2 |-> Rejected, r3 |-> Fulfilled(<<>>),
      manual |-> <<>>],
     [r1 |-> Fulfilled(<<EvCityRun>>), r2 |-> Fulfilled(<<EvCityRunLc, EvCityRunP>>),
      r3 |-> Fulfilled(<<EvOldRace>>), manual |-> <<EvLongC>>],
     [r1 |-> Fulfilled(<<EvNumericTitle>>), r2 |-> Rejected, r3 |-> Rejected,
      manual |-> <<>>]}

NoResp ==
    [status |-> 0, events |-> <<>>, total |-> 0, fetchedAt |-> 0, cached |-> FALSE,
     stale |-> FALSE, success |-> FALSE, count |-> 0, error |-> "none"]

IdleReq == [pc |-> "idle", kind |-> "none", query |-> NoQuery, now0 |-> 0]

Fetching(kind, q, t) == [pc |-> "fetching", kind |-> kind, query |-> q, now0 |-> t]

NoSent == [to |-> 0, kind |-> "none", query |-> NoQuery, resp |-> NoResp]

Sent(i, kind, q, resp) == [to |-> i, kind |-> kind, query |-> q, resp |-> resp]

\* (mutant) the age test with <= for <
CacheFresh_Inclusive(c, t) == c.hasEvents /\ (t - c.fetchedAt) <= CACHE_TTL_MS

\* cache.events && (now - cache.fetchedAt) < CACHE_TTL_MS
CacheFresh(c, t) == c.hasEvents /\ (t - c.fetchedAt) < CACHE_TTL_MS

\* (mutant) total counts the filtered events
HitResponse_FilteredTotal(c, q, off) ==
    [NoResp EXCEPT !.status = 200, !.events = applyFilters(c.events, q, off),
                   !.total = Len(applyFilters(c.events, q, off)),
                   !.fetchedAt = c.fetchedAt, !.cached = TRUE]

\* res.json({ events, total, fetchedAt, cached: true }) of the cache-hit path
HitResponse(c, q, off) ==
    [NoResp EXCEPT !.status = 200, !.events = applyFilters(c.events, q, off),
                   !.total = Len(c.events), !.fetchedAt = c.fetchedAt, !.cached = TRUE]

\* (mutant) the fresh response carrying the stale flag
FreshResponse_FlaggedStale(events, t, q, off) ==
    [NoResp EXCEPT !.status = 200, !.events = applyFilters(events, q, off),
                   !.total = Len(events), !.fetchedAt = t, !.cached = FALSE,
                   !.stale = TRUE]

\* res.json({ events, total, fetchedAt, cached: false }) after a fresh aggregation
FreshResponse(events, t, q, off) ==
    [NoResp EXCEPT !.status = 200, !.events = applyFilters(events, q, off),
                   !.total = Len(events), !.fetchedAt = t, !.cached = FALSE]

\* (mutant) a catch block without the stale fallback
CatchResponse_NoFallback(c, q, off) == [NoResp EXCEPT !.status = 500, !.error = "generic"]

\* (mutant) the stale fallback without its stale flag
CatchResponse_Unflagged(c, q, off) ==
    IF c.hasEvents
    THEN [NoResp EXCEPT !.status = 200, !.events = applyFilters(c.events, q, off),
                        !.total = Len(c.events), !.fetchedAt = c.fetchedAt,
                        !.cached = TRUE]
    ELSE [NoResp EXCEPT !.status = 500, !.error = "generic"]

\* the catch block of GET /api/events: the stale cache, else 500
CatchResponse(c, q, off) ==
    IF c.hasEvents
    THEN [NoResp EXCEPT !.status = 200, !.events = applyFilters(c.events, q, off),
                        !.total = Len(c.events), !.fetchedAt = c.fetchedAt,
                        !.cached = TRUE, !.stale = TRUE]
    ELSE [NoResp EXCEPT !.status = 500, !.error = "generic"]

\* res.json({ success: true, count: events.length })
RefreshResponse(events) ==
    [NoResp EXCEPT !.status = 200, !.success = TRUE, !.count = Len(events)]

\* (mutant) a refresh that answers a failure like a success
RefreshErrorResponse_Swallowed == [NoResp EXCEPT !.status = 200, !.success = TRUE]

\* res.status(500).json({ error: err.message })
RefreshErrorResponse == [NoResp EXCEPT !.status = 500, !.error = "message"]

\* (mutant) a record whose events are stored without their timestamp
CacheOf_Unstamped(events, t) == [events |-> events, hasEvents |-> TRUE, fetchedAt |-> 0]

\* cache = { events, fetchedAt }
CacheOf(events, t) == [events |-> events, hasEvents |-> TRUE, fetchedAt |-> t]

\* await fetchAllEvents() at this moment: whether it rejects, and its value
Throws == fetchAllEventsThrows(sites.r1, sites.r2, sites.r3, sites.manual)
Aggregated == fetchAllEvents(sites.r1, sites.r2, sites.r3, sites.manual, now, tz)

InitIdleServer ==
    /\ cache = [events |-> <<>>, hasEvents |-> FALSE, fetchedAt |-> 0]
    /\ edge = [present |-> FALSE, events |-> <<>>, fetchedAt |-> 0]
    /\ variant = "inproc"
    /\ now = 0
    /\ ticks = 0
    /\ tz = 0
    /\ reqs = [i \in Slots |-> IdleReq]
    /\ prewarm = "none"
    /\ sites = SitesDown
    /\ sent = NoSent

\* the state when the server starts listening: the cache empty and, in the
\* in-process variant, the pre-warm aggregation under way
Init ==
    /\ cache = [events |-> <<>>, hasEvents |-> FALSE, fetchedAt |-> 0]
    /\ edge = [present |-> FALSE, events |-> <<>>, fetchedAt |-> 0]
    /\ variant \in {"inproc", "edge"}
    /\ now = StartNow
    /\ ticks = 0
    /\ tz \in TzOffsets
    /\ reqs = [i \in Slots |-> IdleReq]
    /\ prewarm = IF variant = "inproc" THEN "running" ELSE "none"
    /\ sites \in Feeds
    /\ sent = NoSent
    /\ run = NoRun

Tick ==
    /\ ticks < MaxTicks
    /\ now' = now + TickStep
    /\ ticks' = ticks + 1
    /\ sent' = NoSent
    /\ UNCHANGED <<cache, edge, variant, tz, reqs, prewarm, sites, run>>

\* a source site goes down, comes back or changes its listing
SitesChange ==
    /\ \E f \in Feeds \ {sites} : sites' = f
    /\ sent' = NoSent
    /\ UNCHANGED <<cache, edge, variant, now, ticks, tz, reqs, prewarm, run>>

\* --- in-process variant (server.js) ---

\* (mutant) a pre-warm whose result is dropped
PrewarmFetched_Discard ==
    /\ prewarm = "running"
    /\ ~Throws
    /\ prewarm' = "settled"
    /\ sent' = NoSent
    /\ UNCHANGED <<cache, edge, variant, now, ticks, tz, reqs, sites, run>>

\* app.listen callback: fetchAllEvents().then(events => { cache = ... })
PrewarmFetched ==
    /\ prewarm = "running"
    /\ ~Throws
    /\ cache' = CacheOf(Aggregated, now)
    /\ prewarm' = "settled"
    /\ sent' = NoSent
    /\ UNCHANGED <<edge, variant, now, ticks, tz, reqs, sites, run>>

\* .catch(err => console.error('Pre-warm failed:', err.message))
PrewarmFailed ==
    /\ prewarm = "running"
    /\ Throws
    /\ prewarm' = "settled"
    /\ sent' = NoSent
    /\ UNCHANGED <<cache, edge, variant, now, ticks, tz, reqs, sites, run>>

\* GET /api/events up to its await: a cache hit is answered at once, a miss
\* calls fetchAllEvents
ReadArrive(i) ==
    /\ variant = "inproc"
    /\ reqs[i].pc = "idle"
    /\ \E q \in Queries :
          IF CacheFresh(cache, now)
          THEN /\ sent' = Sent(i, "read", q, HitResponse(cache, q, tz))
               /\ reqs' = reqs
          ELSE /\ sent' = NoSent
               /\ reqs' = [reqs EXCEPT ![i] = Fetching("read", q, now)]
    /\ UNCHANGED <<cache, edge, variant, now, ticks, tz, prewarm, sites, run>>

\* the continuation after await fetchAllEvents() resolved
ReadFetched(i) ==
    /\ variant = "inproc"
    /\ reqs[i].pc = "fetching" /\ reqs[i].kind = "read"
    /\ ~Throws
    /\ cache' = CacheOf(Aggregated, reqs[i].now0)
    /\ reqs' = [reqs EXCEPT ![i] = IdleReq]
    /\ sent' = Sent(i, "read", reqs[i].query,
                   FreshResponse(Aggregated, reqs[i].now0, reqs[i].query, tz))
    /\ UNCHANGED <<edge, variant, now, ticks, tz, prewarm, sites, run>>

\* the catch block after await fetchAllEvents() rejected
ReadFetchFailed(i) ==
    /\ variant = "inproc"
    /\ reqs[i].pc = "fetching" /\ reqs[i].kind = "read"
    /\ Throws
    /\ reqs' = [reqs EXCEPT ![i] = IdleReq]
    /\ sent' = Sent(i, "read", reqs[i].query,
                   CatchResponse(cache, reqs[i].query, tz))
    /\ UNCHANGED <<cache, edge, variant, now, ticks, tz, prewarm, sites, run>>

\* POST /api/refresh up to its await
RefreshArrive(i) ==
    /\ variant = "inproc"
    /\ reqs[i].pc = "idle"
    /\ reqs' = [reqs EXCEPT ![i] = Fetching("refresh", NoQuery, 0)]
    /\ sent' = NoSent
    /\ UNCHANGED <<cache, edge, variant, now, ticks, tz, prewarm, sites, run>>

\* (mutant) a refresh that replaces the events and keeps the old timestamp
RefreshFetched_KeepsStamp(i) ==
    /\ variant = "inproc"
    /\ reqs[i].pc = "fetching" /\ reqs[i].kind = "refresh"
    /\ ~Throws
    /\ cache' = CacheOf(Aggregated, cache.fetchedAt)
    /\ reqs' = [reqs EXCEPT ![i] = IdleReq]
    /\ sent' = Sent(i, "refresh", NoQuery,
                   RefreshResponse(Aggregated))
    /\ UNCHANGED <<edge, variant, now, ticks, tz, prewarm, sites, run>>

\* the continuation of POST /api/refresh after await fetchAllEvents() resolved
RefreshFetched(i) ==
    /\ variant = "inproc"
    /\ reqs[i].pc = "fetching" /\ reqs[i].kind = "refresh"
    /\ ~Throws
    /\ cache' = CacheOf(Aggregated, now)
    /\ reqs' = [reqs EXCEPT ![i] = IdleReq]
    /\ sent' = Sent(i, "refresh", NoQuery,
                   RefreshResponse(Aggregated))
    /\ UNCHANGED <<edge, variant, now, ticks, tz, prewarm, sites, run>>

\* (mutant) a failed refresh that also empties the cache
RefreshFetchFailed_ClearsCache(i) ==
    /\ variant = "inproc"
    /\ reqs[i].pc = "fetching" /\ reqs[i].kind = "refresh"
    /\ Throws
    /\ cache' = [events |-> <<>>, hasEvents |-> FALSE, fetchedAt |-> 0]
    /\ reqs' = [reqs EXCEPT ![i] = IdleReq]
    /\ sent' = Sent(i, "refresh", NoQuery,
                   RefreshErrorResponse)
    /\ UNCHANGED <<edge, variant, now, ticks, tz, prewarm, sites, run>>

\* the catch block of POST /api/refresh
RefreshFetchFailed(i) ==
    /\ variant = "inproc"
    /\ reqs[i].pc = "fetching" /\ reqs[i].kind = "refresh"
    /\ Throws
    /\ reqs' = [reqs EXCEPT ![i] = IdleReq]
    /\ sent' = Sent(i, "refresh", NoQuery,
                   RefreshErrorResponse)
    /\ UNCHANGED <<cache, edge, variant, now, ticks, tz, prewarm, sites, run>>

\* --- edge-cache variant (Pages Functions) ---

NoEntry == [present |-> FALSE, events |-> <<>>, fetchedAt |-> 0]

\* cache.put(cacheKey, { events, fetchedAt }) with s-maxage = CACHE_TTL; the
\* entry is stored at the instant fetchedAt names
EntryOf(events, t) == [present |-> TRUE, events |-> events, fetchedAt |-> t]

\* (mutant) an entry that never expires
EdgeMatch_Forever(e, t) == e.present

\* cache.match(cacheKey): the entry, unless its s-maxage has run out
EdgeMatch(e, t) == e.present /\ (t - e.fetchedAt) < CACHE_TTL

\* the 200 response of onRequestGet
EdgeResponse(events, fetchedAt, cached, q, off) ==
    [NoResp EXCEPT !.status = 200, !.events = applyFilters(events, q, off),
                   !.total = Len(events), !.fetchedAt = fetchedAt, !.cached = cached]

\* the 500 response of onRequestGet: a generic error and detail: err.message
EdgeErrorResponse == [NoResp EXCEPT !.status = 500, !.error = "generic+detail"]

\* onRequestGet up to await fetchAllEvents(): an entry found is answered at once
EdgeReadArrive(i) ==
    /\ variant = "edge"
    /\ reqs[i].pc = "idle"
    /\ \E q \in Queries :
          IF EdgeMatch(edge, now)
          THEN /\ sent' = Sent(i, "read", q,
                               EdgeResponse(edge.events, edge.fetchedAt, TRUE, q, tz))
               /\ reqs' = reqs
          ELSE /\ sent' = NoSent
               /\ reqs' = [reqs EXCEPT ![i] = Fetching("read", q, 0)]
    /\ UNCHANGED <<cache, edge, variant, now, ticks, tz, prewarm, sites, run>>

\* the cache-miss branch after the aggregation resolved: the snapshot is put
\* under the key (context.waitUntil(cache.put(...))) and the response returned
EdgeReadFetched(i) ==
    /\ variant = "edge"
    /\ reqs[i].pc = "fetching" /\ reqs[i].kind = "read"
    /\ ~Throws
    /\ edge' = EntryOf(Aggregated, now)
    /\ reqs' = [reqs EXCEPT ![i] = IdleReq]
    /\ sent' = Sent(i, "read", reqs[i].query,
                   EdgeResponse(Aggregated, now, FALSE, reqs[i].query, tz))
    /\ UNCHANGED <<cache, variant, now, ticks, tz, prewarm, sites, run>>

EdgeReadFetchFailed(i) ==
    /\ variant = "edge"
    /\ reqs[i].pc = "fetching" /\ reqs[i].kind = "read"
    /\ Throws
    /\ reqs' = [reqs EXCEPT ![i] = IdleReq]
    /\ sent' = Sent(i, "read", reqs[i].query,
                   EdgeErrorResponse)
    /\ UNCHANGED <<cache, edge, variant, now, ticks, tz, prewarm, sites, run>>

\* onRequestPost up to await fetchAllEvents(): the entry is purged first
EdgeRefreshArrive(i) ==
    /\ variant = "edge"
    /\ reqs[i].pc = "idle"
    /\ edge' = NoEntry
    /\ reqs' = [reqs EXCEPT ![i] = Fetching("refresh", NoQuery, 0)]
    /\ sent' = NoSent
    /\ UNCHANGED <<cache, variant, now, ticks, tz, prewarm, sites, run>>

EdgeRefreshFetched(i) ==
    /\ variant = "edge"
    /\ reqs[i].pc = "fetching" /\ reqs[i].kind = "refresh"
    /\ ~Throws
    /\ edge' = EntryOf(Aggregated, now)
    /\ reqs' = [reqs EXCEPT ![i] = IdleReq]
    /\ sent' = Sent(i, "refresh", NoQuery,
                   RefreshResponse(Aggregated))
    /\ UNCHANGED <<cache, variant, now, ticks, tz, prewarm, sites, run>>

EdgeRefreshFetchFailed(i) ==
    /\ variant = "edge"
    /\ reqs[i].pc = "fetching" /\ reqs[i].kind = "refresh"
    /\ Throws
    /\ reqs' = [reqs EXCEPT ![i] = IdleReq]
    /\ sent' = Sent(i, "refresh", NoQuery,
                   RefreshErrorResponse)
    /\ UNCHANGED <<cache, edge, variant, now, ticks, tz, prewarm, sites, run>>

Next ==
    \/ Tick
    \/ SitesChange
    \/ PrewarmFetched
    \/ PrewarmFailed
    \/ \E i \in Slots : ReadArrive(i)
    \/ \E i \in Slots : ReadFetched(i)
    \/ \E i \in Slots : ReadFetchFailed(i)
    \/ \E i \in Slots : RefreshArrive(i)
    \/ \E i \in Slots : RefreshFetched(i)
    \/ \E i \in Slots : RefreshFetchFailed(i)
    \/ \E i \in Slots : EdgeReadArrive(i)
    \/ \E i \in Slots : EdgeReadFetched(i)
    \/ \E i \in Slots : EdgeReadFetchFailed(i)
    \/ \E i \in Slots : EdgeRefreshArrive(i)
    \/ \E i \in Slots : EdgeRefreshFetched(i)
    \/ \E i \in Slots : EdgeRefreshFetchFailed(i)

Spec == Init /\ [][Next]_vars

InitAgg == InitRun /\ InitIdleServer

NextAgg == Aggregate

SpecAgg == InitAgg /\ [][NextAgg]_vars

-----------------------------------------------------------------------------
(* Properties of the aggregator *)

RECURSIVE Flatten(_)
Flatten(batches) ==
    IF batches = <<>> THEN <<>> ELSE Head(batches) \o Flatten(Tail(batches))

\* the batches of the extractors that succeeded, in source order (SSR-JSON,
\* structured-data, listing-array), followed by the manual events
RunInput ==
    LET ok == SelectSeq(<<run.r1, run.r2, run.r3>>, LAMBDA r : r.status = "fulfilled")
    IN  Flatten([i \in DOMAIN ok |-> ok[i].value]) \o run.manual

\* the Dedup Key as the data model states it: the title lowercased, stripped of
\* non-alphanumerics and cut to 28 characters, together with startDate
StatedKeyOf ==
    [e \in Pool1 \cup Pool2 \cup Pool3 \cup {EvLongC, EvNoDate} |->
        <<Slice(StripNonAlnum(toLowerCase(IF e.title = Null THEN <<>> ELSE e.title)), 28),
          e.startDate>>]

StatedKey(e) == StatedKeyOf[e]

FirstIndex(s, e) == CHOOSE i \in DOMAIN s : s[i] = e /\ \A j \in 1..(i - 1) : s[j] # e

FirstWithKey(s, k) ==
    s[CHOOSE i \in DOMAIN s : StatedKey(s[i]) = k /\ \A j \in 1..(i - 1) : StatedKey(s[j]) # k]

\* C6: whatever subset of the extractors is rejected, fetchAllEvents completes
\* and its output is the dedup / past-filter / sort pipeline applied to the
\* batches of exactly the fulfilled extractors followed by the manual events:
\* every output event is one of them, and each of them that the past filter
\* keeps is represented in the output.
C6_FailureIsolation ==
    run.pc = "done" =>
        /\ run.out = SortByDate(RemovePast(Dedup(RunInput), run.t, run.off))
        /\ \A i \in DOMAIN run.out : \E j \in DOMAIN RunInput : RunInput[j] = run.out[i]
        /\ \A j \in DOMAIN RunInput :
              IsUpcoming(RunInput[j], LocalMidnight(run.t, run.off)) =>
                  \E i \in DOMAIN run.out : StatedKey(run.out[i]) = StatedKey(RunInput[j])

C6_Witness ==
    /\ run.pc = "done"
    /\ run.r1.status = "rejected"
    /\ run.r2.status = "fulfilled" /\ run.r2.value # <<>>
    /\ run.r3.status = "rejected"
    /\ run.manual # <<>>
    /\ Len(run.out) >= 2

\* C7: of the input events that share a Dedup Key the merged (deduplicated)
\* sequence holds exactly one, the first in concatenation order; the final
\* output holds no other event of that key.
C7_DedupFirstWins ==
    run.pc = "done" =>
        LET input == RunInput
        IN  \A i, j \in DOMAIN input :
                (i < j /\ StatedKey(input[i]) = StatedKey(input[j])) =>
                    LET k == StatedKey(input[i])
                        first == FirstWithKey(input, k)
                    IN  /\ Cardinality({n \in DOMAIN run.merged :
                                           StatedKey(run.merged[n]) = k}) = 1
                        /\ \A n \in DOMAIN run.merged :
                              StatedKey(run.merged[n]) = k => run.merged[n] = first
                        /\ Cardinality({n \in DOMAIN run.out :
                                           StatedKey(run.out[n]) = k}) <= 1
                        /\ \A n \in DOMAIN run.out :
                              StatedKey(run.out[n]) = k => run.out[n] = first

\* 'City Run' of the first source and 'city run' of the second, same date:
\* only the first source's event, with its distances, is in the output
C7_Witness ==
    /\ run.pc = "done"
    /\ run.r1.status = "fulfilled" /\ run.r1.value = <<EvCityRun>>
    /\ run.r2.status = "fulfilled" /\ run.r2.value = <<EvCityRunLc>>
    /\ \E n \in DOMAIN run.out : run.out[n] = EvCityRun
    /\ \A n \in DOMAIN run.out : run.out[n] # EvCityRunLc

\* C8 (as claimed): every output event has a startDate on or after the
\* server's local calendar day, and an input event dated that very day is in
\* the output, for every time-zone offset.
C8_PastExclusion ==
    run.pc = "done" =>
        /\ \A i \in DOMAIN run.out :
              /\ run.out[i].startDate # Null
              /\ DateTime(run.out[i].startDate) \div MinPerDay >= LocalDay(run.t, run.off)
        /\ \A j \in DOMAIN RunInput :
              (/\ RunInput[j].startDate # Null
               /\ DateTime(RunInput[j].startDate) = LocalDay(run.t, run.off) * MinPerDay)
                  => \E i \in DOMAIN run.out : StatedKey(run.out[i]) = StatedKey(RunInput[j])

\* C9: the output is non-decreasing by startDate and events of one startDate
\* keep the relative order they have in the concatenated input.
C9_SortedStable ==
    run.pc = "done" =>
        LET input == RunInput
        IN  \A i, j \in DOMAIN run.out :
                i < j =>
                    /\ DateTime(run.out[i].startDate) <= DateTime(run.out[j].startDate)
                    /\ run.out[i].startDate = run.out[j].startDate =>
                          FirstIndex(input, run.out[i]) < FirstIndex(input, run.out[j])

C9_Witness ==
    /\ run.pc = "done"
    /\ Len(run.out) >= 4
    /\ \E i, j \in DOMAIN run.out :
          /\ i < j
          /\ run.out[i].startDate = run.out[j].startDate
          /\ run.out[i].source # run.out[j].source
    /\ \E i, j \in DOMAIN run.out : run.out[i].startDate # run.out[j].startDate
    /\ \E i, j \in DOMAIN RunInput :
          /\ i < j
          /\ DateTime(RunInput[i].startDate) > DateTime(RunInput[j].startDate)
          /\ \E n \in DOMAIN run.out : run.out[n] = RunInput[i]
          /\ \E n \in DOMAIN run.out : run.out[n] = RunInput[j]

-----------------------------------------------------------------------------
(* Properties of the cache layers *)

\* steps of a request on slot i, read off the state change
ReadMisses(i) ==
    reqs[i].pc = "idle" /\ reqs'[i].pc = "fetching" /\ reqs'[i].kind = "read"

ReadHits(i) ==
    reqs[i].pc = "idle" /\ reqs'[i].pc = "idle" /\ sent'.to = i /\ sent'.kind = "read"

ReadAnswered(i) ==
    reqs[i].pc = "fetching" /\ reqs[i].kind = "read" /\ reqs'[i].pc = "idle"

RefreshAnswered(i) ==
    reqs[i].pc = "fetching" /\ reqs[i].kind = "refresh" /\ reqs'[i].pc = "idle"

\* a is an order-preserving subsequence of b
RECURSIVE IsSubsequence(_, _)
IsSubsequence(a, b) ==
    IF a = <<>> THEN TRUE
    ELSE IF b = <<>> THEN FALSE
    ELSE IF Head(a) = Head(b) THEN IsSubsequence(Tail(a), Tail(b))
    ELSE IsSubsequence(a, Tail(b))

\* C1: in the in-process variant a read that arrives while a cached result
\* exists and is younger than 6 hours is answered with cached = true and starts
\* no aggregation; any other read starts an aggregation.
C1_CacheTTL ==
    [][variant = "inproc" =>
          \A i \in Slots :
              (ReadHits(i) \/ ReadMisses(i)) =>
                  IF cache.hasEvents /\ (now - cache.fetchedAt) < 6 * 60
                  THEN /\ ReadHits(i)
                       /\ sent'.resp.status = 200
                       /\ sent'.resp.cached
                       /\ reqs' = reqs
                  ELSE ReadMisses(i)]_vars

\* a read is answered from the cache while another read, which arrived before
\* the cache was filled, is still aggregating
C1_Witness ==
    /\ variant = "inproc"
    /\ sent.to # 0 /\ sent.kind = "read"
    /\ sent.resp.cached /\ ~sent.resp.stale
    /\ now - cache.fetchedAt = TickStep
    /\ \E j \in Slots : reqs[j].pc = "fetching" /\ reqs[j].kind = "read"

\* C2: when the aggregation of a cache-miss read fails and a cached result
\* exists, the read is answered 200 with the cached payload, cached = true and
\* stale = true, and the cache record is left as it was.
C2_StaleFallback ==
    [][variant = "inproc" =>
          \A i \in Slots :
              (ReadAnswered(i) /\ Throws /\ cache.hasEvents) =>
                  /\ sent'.to = i
                  /\ sent'.resp.status = 200
                  /\ sent'.resp.events = applyFilters(cache.events, reqs[i].query, tz)
                  /\ sent'.resp.total = Len(cache.events)
                  /\ sent'.resp.fetchedAt = cache.fetchedAt
                  /\ sent'.resp.cached
                  /\ sent'.resp.stale
                  /\ cache' = cache]_vars

\* a stale answer from an expired cache that holds events
C2_Witness ==
    /\ variant = "inproc"
    /\ sent.kind = "read" /\ sent.resp.stale
    /\ sent.resp.total > 0
    /\ now - cache.fetchedAt >= 6 * 60

\* no extractor delivered an event (it rejected, or caught its error and
\* returned nothing) and there is no manual event
AllSourcesFailed(f) ==
    /\ \A r \in {f.r1, f.r2, f.r3} : r.status = "rejected" \/ r.value = <<>>
    /\ f.manual = <<>>

\* C3 (as claimed): a read whose aggregation found every extractor failed and no
\* manual event is never answered 200 with a fresh result; it is answered from
\* the cached snapshot or with 500.
C3_TotalFailureSurfaced ==
    (/\ variant = "inproc"
     /\ sent.to # 0 /\ sent.kind = "read"
     /\ AllSourcesFailed(sites))
        => (sent.resp.status = 500 \/ sent.resp.cached)

\* C4: a refresh is answered only after an aggregation of its own; when that
\* succeeds the cache holds its result and the answer is 200 with success and
\* the result's count; when it fails the answer is 500, carries no cached data,
\* and the cache is not written.
C4_Refresh ==
    [][\A i \in Slots :
          /\ (sent'.to = i /\ sent'.kind = "refresh") => RefreshAnswered(i)
          /\ (RefreshAnswered(i) /\ ~Throws) =>
                /\ sent'.to = i
                /\ sent'.resp.status = 200 /\ sent'.resp.success
                /\ sent'.resp.count = Len(Aggregated)
                /\ variant = "inproc" =>
                      cache' = [events |-> Aggregated, hasEvents |-> TRUE,
                                fetchedAt |-> now]
                /\ variant = "edge" =>
                      (edge'.present /\ edge'.events = Aggregated)
          /\ (RefreshAnswered(i) /\ Throws) =>
                /\ sent'.to = i
                /\ sent'.resp.status = 500
                /\ sent'.resp.events = <<>> /\ ~sent'.resp.cached /\ ~sent'.resp.stale
                /\ ~sent'.resp.success
                /\ cache' = cache]_vars

\* a refresh fails while an unexpired snapshot with events is cached
C4_Witness ==
    /\ variant = "inproc"
    /\ sent.to # 0 /\ sent.kind = "refresh" /\ sent.resp.status = 500
    /\ CacheFresh(cache, now) /\ cache.events # <<>>

\* C5: a read is answered 200 or 500, and 500 exactly when the aggregation it
\* started failed and no cached result exists at that moment.
C5_ErrorOnlyWithoutData ==
    [][variant = "inproc" =>
          \A i \in Slots :
              (sent'.to = i /\ sent'.kind = "read") =>
                  /\ sent'.resp.status \in {200, 500}
                  /\ sent'.resp.status = 500 <=>
                        (ReadAnswered(i) /\ Throws /\ ~cache.hasEvents)]_vars

C5_Witness ==
    /\ variant = "inproc"
    /\ sent.to # 0 /\ sent.kind = "read" /\ sent.resp.status = 500
    /\ ~cache.hasEvents

\* C10: a 200 answer to a read carries total = the number of events of the
\* whole cached or fresh result, and events = that result filtered by the
\* request's query: an order-preserving subsequence no longer than total.
C10_TotalAndEvents ==
    (sent.to # 0 /\ sent.kind = "read" /\ sent.resp.status = 200) =>
        LET result == IF variant = "inproc" THEN cache.events ELSE edge.events
        IN  /\ sent.resp.total = Len(result)
            /\ sent.resp.events = applyFilters(result, sent.query, tz)
            /\ IsSubsequence(sent.resp.events, result)
            /\ Len(sent.resp.events) <= sent.resp.total

\* a filtered answer that keeps some events and drops others
C10_Witness ==
    /\ sent.to # 0 /\ sent.kind = "read" /\ sent.resp.status = 200
    /\ sent.query # NoQuery
    /\ Len(sent.resp.events) >= 1
    /\ Len(sent.resp.events) < sent.resp.total

-----------------------------------------------------------------------------
(* applyFilters on given events and parameters *)

\* an event of a source outside India, which the schema allows
Abroad(e) == [e EXCEPT !.region = "Global"]

FvMarathon42 == Event("ir-11", <<"S","p","r","i","n","g">>, Date2026(3, 15),
                      <<<<"4","2","K">>>>, "indiarunning.com")
FvHalf21     == Event("ir-12", <<"F","i","r","s","t">>, Date2026(3, 1),
                      <<<<"2","1","K">>>>, "indiarunning.com")
FvHalfAbroad == Abroad(Event("ts-13", <<"L","a","s","t">>, Date2026(3, 31),
                      <<<<"H","a","l","f"," ","M","a","r","a","t","h","o","n">>>>,
                      "townscript.com"))
FvUltra      == Event("ir-14", <<"A","p","r","i","l">>, Date2026(4, 1),
                      <<<<"U","l","t","r","a"," ","M","a","r","a","t","h","o","n">>,
                        <<"M","a","r","a","t","h","o","n">>>>, "indiarunning.com")
FvUltra42    == Abroad(Event("ts-15", <<"T","r","a","i","l">>, Date2026(4, 30),
                      <<<<"4","2","K"," ","U","l","t","r","a">>>>, "townscript.com"))

FilterPool == {FvMarathon42, FvHalf21, FvHalfAbroad, FvUltra, FvUltra42}

India    == <<"i","n","d","i","a">>
Global   == <<"g","l","o","b","a","l">>
Marathon == <<"m","a","r","a","t","h","o","n">>
Half     == <<"h","a","l","f">>

\* the query strings ?region=&distance=&month= the filter is applied with
FilterQueries ==
    [region : {<<>>, All, India, Global},
     distance : {<<>>, Marathon, Half},
     month : {<<>>, All, <<"3">>, <<"4">>}]

InitFilterRun ==
    run \in [pc : {"filter"}, events : SeqsUpTo(FilterPool, MaxBatch),
             q : FilterQueries, off : TzOffsets,
             out : {<<>>}, twice : {<<>>},
             byRegion : {<<>>}, byDistance : {<<>>}, byMonth : {<<>>}]

\* applyFilters(events, req.query), the same call with each parameter alone,
\* and the call repeated on its own result
ApplyFilter ==
    /\ run.pc = "filter"
    /\ LET once == applyFilters(run.events, run.q, run.off)
       IN  run' = [run EXCEPT
                     !.pc = "filtered",
                     !.out = once,
                     !.twice = applyFilters(once, run.q, run.off),
                     !.byRegion =
                         applyFilters(run.events,
                                      [NoQuery EXCEPT !.region = run.q.region], run.off),
                     !.byDistance =
                         applyFilters(run.events,
                                      [NoQuery EXCEPT !.distance = run.q.distance], run.off),
                     !.byMonth =
                         applyFilters(run.events,
                                      [NoQuery EXCEPT !.month = run.q.month], run.off)]
    /\ UNCHANGED <<cache, edge, variant, now, ticks, tz, reqs, prewarm, sites, sent>>

InitFilter == InitFilterRun /\ InitIdleServer

NextFilter == ApplyFilter

SpecFilter == InitFilter /\ [][NextFilter]_vars

-----------------------------------------------------------------------------
(* Properties of the filter *)

\* C11: applyFilters with region, distance and month together keeps, in input
\* order, exactly the events that each of the three parameters alone keeps.
C11_FilterComposition ==
    run.pc = "filtered" =>
        run.out = SelectSeq(run.events,
                            LAMBDA e : /\ e \in Range(run.byRegion)
                                       /\ e \in Range(run.byDistance)
                                       /\ e \in Range(run.byMonth))

\* all three parameters are given and each alone keeps an event the call drops
C11_Witness ==
    /\ run.pc = "filtered"
    /\ run.q.region = India /\ run.q.distance = Marathon /\ run.q.month = <<"3">>
    /\ Len(run.events) >= 2
    /\ Len(run.out) = 1
    /\ Len(run.byDistance) >= 2

\* C12: filtering the result of applyFilters again with the same parameters
\* changes nothing.
C12_FilterIdempotent ==
    run.pc = "filtered" => run.twice = run.out

\* a filter that dropped something and kept something is repeated
C12_Witness ==
    /\ run.pc = "filtered"
    /\ run.q.distance = Half /\ run.q.month = <<"3">>
    /\ run.out # <<>>
    /\ Len(run.out) < Len(run.events)
    /\ run.twice = run.out

\* the month component of a date string YYYY-MM-DD
MonthComponent(s) == DigitVal(s[6]) * 10 + DigitVal(s[7])

\* C13 (as claimed): for every time-zone offset the month parameter keeps
\* exactly the events whose startDate string has the requested month as its
\* month component; absent or 'all' keeps everything.
C13_MonthFilter ==
    run.pc = "filtered" =>
        run.byMonth =
            IF run.q.month \in {<<>>, All} THEN run.events
            ELSE SelectSeq(run.events,
                           LAMBDA e : MonthComponent(e.startDate) = parseInt(run.q.month))

\* the marathon bucket as the filter's description states it
StatedMarathon(label) ==
    LET d == toLowerCase(label)
    IN  /\ Includes(d, Marathon) \/ Includes(d, <<"4","2">>)
        /\ ~Includes(d, Half)
        /\ ~Includes(d, <<"u","l","t","r","a">>)

\* C14 (as claimed): distance=marathon keeps exactly the events with a label
\* that mentions 'marathon' or '42' and mentions neither 'half' nor 'ultra';
\* a label '21K' is kept by distance=half and a label '42K' is not.
C14_MarathonBucket ==
    run.pc = "filtered" =>
        /\ run.q.distance = Marathon =>
              \A i \in DOMAIN run.events :
                  (run.events[i] \in Range(run.byDistance)) <=>
                      \E k \in DOMAIN run.events[i].distances :
                          StatedMarathon(run.events[i].distances[k])
        /\ run.q.distance = Half =>
              /\ FvHalf21 \in Range(run.events) => FvHalf21 \in Range(run.byDistance)
              /\ FvMarathon42 \notin Range(run.byDistance)

-----------------------------------------------------------------------------
(* The normalisers: source records to Events *)

\* a || b of string-or-null values
Or(a, b) == IF Truthy(a) THEN a ELSE b

\* the position of the first occurrence of sub at or after position i
StartsAt(s, i, sub) ==
    /\ i >= 1
    /\ i + Len(sub) - 1 <= Len(s)
    /\ \A k \in 1..Len(sub) : s[i + k - 1] = sub[k]

\* s.indexOf(sub) + 1: 0 when sub does not occur
IndexOf(s, sub) ==
    IF \E i \in 1..Len(s) : StartsAt(s, i, sub)
    THEN CHOOSE i \in 1..Len(s) :
             StartsAt(s, i, sub) /\ \A j \in 1..(i - 1) : ~StartsAt(s, j, sub)
    ELSE 0

\* s.replace(sub, by) with a string pattern: the first occurrence only
ReplaceFirst(s, sub, by) ==
    LET i == IndexOf(s, sub)
    IN  IF i = 0 THEN s
        ELSE SubSeq(s, 1, i - 1) \o by \o SubSeq(s, i + Len(sub), Len(s))

\* s.replace(/[^a-z0-9]/gi, '-')
DashNonAlnum(s) == [i \in DOMAIN s |-> IF IsAlnum(LowerChar(s[i])) THEN s[i] ELSE "-"]

\* normDate: String(str).split('T')[0], null for a falsy value
normDate(str) ==
    IF ~Truthy(str) THEN Null
    ELSE LET i == IndexOf(str, <<"T">>)
         IN  IF i = 0 THEN str ELSE SubSeq(str, 1, i - 1)

\* the civil date of a day number (days since the epoch)
CivilFromDays(z) ==
    LET zz  == z + 719468
        era == zz \div 146097
        doe == zz - era * 146097
        yoe == (doe - doe \div 1460 + doe \div 36524 - doe \div 146096) \div 365
        doy == doe - (365 * yoe + yoe \div 4 - yoe \div 100)
        mp  == (5 * doy + 2) \div 153
        m   == IF mp < 10 THEN mp + 3 ELSE mp - 9
    IN  [y |-> yoe + era * 400 + (IF m <= 2 THEN 1 ELSE 0),
         m |-> m,
         d |-> doy - (153 * mp + 2) \div 5 + 1]

\* the form YYYY-MM-DDTHH:MM:SS+HH:MM of a date-time with a zone offset
IsISODateTime(s) ==
    /\ s # Null
    /\ Len(s) = 25
    /\ IsISODate(SubSeq(s, 1, 10))
    /\ s[11] = "T" /\ s[14] = ":" /\ s[17] = ":" /\ s[23] = ":"
    /\ s[20] \in {"+", "-"}
    /\ \A i \in {12, 13, 15, 16, 18, 19, 21, 22, 24, 25} : IsDigit(s[i])

\* new Date(s).getTime() for a date or a date-time string, in minutes
InstantOf(s) ==
    IF IsISODate(s) THEN DateTime(s)
    ELSE IF IsISODateTime(s)
    THEN LET hm   == (DigitVal(s[12]) * 10 + DigitVal(s[13])) * 60
                     + DigitVal(s[15]) * 10 + DigitVal(s[16])
             zone == (DigitVal(s[21]) * 10 + DigitVal(s[22])) * 60
                     + DigitVal(s[24]) * 10 + DigitVal(s[25])
         IN  DateTime(SubSeq(s, 1, 10)) + hm
                 - (IF s[20] = "+" THEN zone ELSE 0 - zone)
    ELSE NaN

\* normDate(new Date(t).toISOString()): the UTC calendar day of an instant
ISODay(t) ==
    LET c == CivilFromDays(t \div MinPerDay)
    IN  Str2(c.y \div 100) \o Str2(c.y % 100) \o <<"-">> \o Str2(c.m)
            \o <<"-">> \o Str2(c.d)

\* the Event fields the aggregator, the filter and the responses read; city,
\* state, price, rating, organizer and url are carried along unread
NormEvent(id, title, startDate, endDate, distances, source) ==
    [id |-> id, title |-> title, startDate |-> startDate, endDate |-> endDate,
     distances |-> distances, source |-> source, region |-> "India"]

UnnamedEvent == <<"U","n","n","a","m","e","d"," ","E","v","e","n","t">>

\* an element of e.categories that is null instead of an object: the
\* categories are modelled by their category values, this one stands for null
NullEntry == <<"null entry">>

\* (e.categories || []).map(c => c.category) throws a TypeError on null
IRThrows(e) == \E k \in DOMAIN e.categories : e.categories[k] = NullEntry

normaliseIR(e) ==
    NormEvent(<<"i","r","-">> \o (IF Truthy(Or(e.id, e.slug)) THEN Or(e.id, e.slug)
                        ELSE <<"u","n","d","e","f","i","n","e","d">>),
              Or(Or(e.title, e.name), UnnamedEvent),
              normDate(Or(e.eventStart, e.startDate)),
              normDate(Or(e.eventEnd, e.endDate)),
              SelectSeq(e.categories, Truthy),
              "indiarunning.com")

normaliseBhaago(e) ==
    NormEvent(<<"b","i","-">> \o e.slug,
              Or(e.name, UnnamedEvent),
              e.startDate,
              Or(e.endDate, e.startDate),
              <<>>,
              "bhaagoindia.com")

\* a at position i of s, then any number of blanks, then b
SpacedAt(s, i, a, b) ==
    /\ StartsAt(s, i, a)
    /\ \E k \in 0..Len(s) :
          /\ \A j \in 0..(k - 1) :
                i + Len(a) + j <= Len(s) /\ s[i + Len(a) + j] = " "
          /\ StartsAt(s, i + Len(a) + k, b)

\* /a\s*b/.test(s)
MatchesSpaced(s, a, b) == \E i \in 1..Len(s) : SpacedAt(s, i, a, b)

\* /\ba\s*b/.test(s)
MatchesSpacedWord(s, a, b) ==
    \E i \in 1..Len(s) : SpacedAt(s, i, a, b) /\ (i = 1 \/ ~IsWordChar(s[i - 1]))

\* /(?<!half\s)(?<!ultra\s)marathon/.test(s)
MatchesBareMarathon(s) ==
    \E i \in 1..Len(s) :
        /\ StartsAt(s, i, <<"m","a","r","a","t","h","o","n">>)
        /\ ~StartsAt(s, i - 5, <<"h","a","l","f"," ">>)
        /\ ~StartsAt(s, i - 6, <<"u","l","t","r","a"," ">>)

inferDistances(name) ==
    LET n == toLowerCase(name)
    IN  (IF MatchesSpacedWord(n, <<"5">>, <<"k">>) THEN <<<<"5","K">>>> ELSE <<>>)
     \o (IF MatchesSpacedWord(n, <<"1","0">>, <<"k">>) THEN <<<<"1","0","K">>>> ELSE <<>>)
     \o (IF MatchesSpaced(n, <<"h","a","l","f">>, <<"m","a","r","a","t","h","o","n">>) \/ MatchesSpaced(n, <<"2","1">>, <<"k">>)
         THEN <<<<"H","a","l","f"," ","M","a","r","a","t","h","o","n">>>> ELSE <<>>)
     \o (IF /\ MatchesBareMarathon(n) \/ MatchesSpaced(n, <<"4","2">>, <<"k">>)
            /\ ~Includes(n, <<"h","a","l","f">>)
            /\ ~Includes(n, <<"u","l","t","r","a">>)
         THEN <<<<"M","a","r","a","t","h","o","n">>>> ELSE <<>>)
     \o (IF Includes(n, <<"u","l","t","r","a">>) THEN <<<<"U","l","t","r","a">>>> ELSE <<>>)

\* new Date(x).toISOString() throws a RangeError on an invalid date
TownscriptThrows(e) ==
    \/ Truthy(e.startDate) /\ InstantOf(e.startDate) = NaN
    \/ Truthy(e.endDate) /\ InstantOf(e.endDate) = NaN

\* eventUrl.match(/\/e\/([^/?#]+)/)?.[1]: Null when there is no match
SlugOfUrl(url) ==
    LET IsSlugChar(c) == c \notin {"/", "?", "#"}
        Hit(i) == StartsAt(url, i, <<"/","e","/">>) /\ i + 3 <= Len(url) /\ IsSlugChar(url[i + 3])
    IN  IF \E i \in 1..Len(url) : Hit(i)
        THEN LET i == CHOOSE i \in 1..Len(url) : Hit(i) /\ \A j \in 1..(i - 1) : ~Hit(j)
                 n == CHOOSE n \in (i + 3)..Len(url) :
                          /\ \A j \in (i + 3)..n : IsSlugChar(url[j])
                          /\ (n = Len(url) \/ ~IsSlugChar(url[n + 1]))
             IN  SubSeq(url, i + 3, n)
        ELSE Null

normaliseTownscript(e) ==
    LET name      == Or(e.name, <<>>)
        startDate == IF Truthy(e.startDate) THEN ISODay(InstantOf(e.startDate)) ELSE Null
        endDate   == IF Truthy(e.endDate) THEN ISODay(InstantOf(e.endDate)) ELSE startDate
        eventUrl  == ReplaceFirst(Or(e.url, <<>>), <<"t","o","w","n","s","c","r","i","p","t",".","c","o","m","/","/","e","/">>, <<"t","o","w","n","s","c","r","i","p","t",".","c","o","m","/","e","/">>)
        slug      == Or(SlugOfUrl(eventUrl), Slice(DashNonAlnum(name), 40))
    IN  NormEvent(<<"t","s","-">> \o slug, name, startDate, endDate, inferDistances(name),
                  "townscript.com")

\* one entry of manual-events.json
loadManualEvent(e) ==
    NormEvent(<<"m","a","n","u","a","l","-">> \o toLowerCase(Slice(DashNonAlnum(Or(e.title, <<>>)), 40)),
              Or(e.title, UnnamedEvent),
              Or(e.startDate, Null),
              Or(Or(e.endDate, e.startDate), Null),
              e.distances,
              "manual")

-----------------------------------------------------------------------------
(* The extractors on given source records, then the aggregator *)

Call(fn, arg, result) == [fn |-> fn, arg |-> arg, result |-> result]

\* what one of the six listing pages gives: the request fails, the page lacks
\* the __NEXT_DATA__ script, no probed path holds an array, or the events array
PageFailed == [kind |-> "failed", events |-> <<>>]

PageNoMarker == [kind |-> "no marker", events |-> <<>>]

PageNoArray == [kind |-> "no array", events |-> <<>>]

Page(events) == [kind |-> "events", events |-> events]

\* fetchIndiaRunning's loops over the pages and over each page's records: the
\* first record of each key e.id || e.slug is normalised and kept in seen, the
\* others are skipped; a throw inside normaliseIR is caught by the page's try
\* and the loop goes on with the next page
RECURSIVE IRCallsFrom(_, _)
IRCallsFrom(pages, seen) ==
    IF pages = <<>> THEN <<>>
    ELSE IF Head(pages).events = <<>> THEN IRCallsFrom(Tail(pages), seen)
    ELSE LET e    == Head(Head(pages).events)
             key  == Or(e.id, e.slug)
             rest == <<Page(Tail(Head(pages).events))>> \o Tail(pages)
         IN  IF key \in seen THEN IRCallsFrom(rest, seen)
             ELSE IF IRThrows(e) THEN IRCallsFrom(Tail(pages), seen)
             ELSE <<Call("normaliseIR", e, normaliseIR(e))>>
                      \o IRCallsFrom(rest, seen \cup {key})

\* fetchTownscript's loop over the items of one JSON-LD block: an item whose
\* normalisation throws ends the block, the items before it stay pushed
RECURSIVE TSCallsFrom(_)
TSCallsFrom(items) ==
    IF items = <<>> \/ TownscriptThrows(Head(items)) THEN <<>>
    ELSE <<Call("normaliseTownscript", Head(items), normaliseTownscript(Head(items)))>>
             \o TSCallsFrom(Tail(items))

\* a JSON-LD block of the page: one that JSON.parse rejects, or its items
NotJSON == [json |-> FALSE, items |-> <<>>]

Block(items) == [json |-> TRUE, items |-> items]

\* fetchTownscript's loop over the blocks: the try around each block's body
\* ends that block at a JSON.parse error or at the first throwing item, and
\* the loop goes on with the next block
RECURSIVE TSBlocksCalls(_)
TSBlocksCalls(blocks) ==
    IF blocks = <<>> THEN <<>>
    ELSE (IF Head(blocks).json THEN TSCallsFrom(Head(blocks).items) ELSE <<>>)
             \o TSBlocksCalls(Tail(blocks))

BhaagoCalls(objs) ==
    [i \in DOMAIN objs |-> Call("normaliseBhaago", objs[i], normaliseBhaago(objs[i]))]

ManualCalls(entries) ==
    [i \in DOMAIN entries |-> Call("loadManualEvents", entries[i], loadManualEvent(entries[i]))]

Results(calls) == [i \in DOMAIN calls |-> calls[i].result]

\* if (norm.startDate) events.push(norm)
TownscriptBatch(calls) == SelectSeq(Results(calls), LAMBDA ev : Truthy(ev.startDate))

RawIR(id, slug, title, name, eventStart, eventEnd, startDate, endDate, categories) ==
    [id |-> id, slug |-> slug, title |-> title, name |-> name,
     eventStart |-> eventStart, eventEnd |-> eventEnd,
     startDate |-> startDate, endDate |-> endDate, categories |-> categories]

IrCityRun == RawIR(<<"7">>, <<"c","i","t","y","-","r","u","n">>, <<"C","i","t","y"," ","R","u","n">>, Null, <<"2","0","2","6","-","0","3","-","0","5","T","0","6",":","0","0",":","0","0">>,
                   <<"2","0","2","6","-","0","3","-","0","6","T","0","6",":","0","0",":","0","0">>, Null, Null, <<<<"1","0","K">>, Null>>)
IrHillRun == RawIR(Null, <<"h","i","l","l","-","r","u","n">>, Null, <<"H","i","l","l"," ","R","u","n">>, Null, Null, <<"2","0","2","6","-","0","3","-","0","7">>, Null,
                   <<<<"H","a","l","f"," ","M","a","r","a","t","h","o","n">>>>)
IrNameless == RawIR(<<"8">>, <<"x">>, Null, Null, <<"2","0","2","6","-","0","3","-","0","7","T","0","5",":","0","0",":","0","0">>, Null, Null, Null, <<>>)
IrCityAgain == RawIR(<<"7">>, <<"c","i","t","y","-","r","u","n">>, <<"C","i","t","y"," ","R","u","n"," ","2","0","2","6">>, Null, <<"2","0","2","6","-","0","3","-","0","5","T","0","6",":","0","0",":","0","0">>,
                     Null, Null, Null, <<>>)

IrBroken == RawIR(<<"9">>, <<"d","u","n","e">>, <<"D","u","n","e"," ","R","u","n">>, Null, Null, Null, <<"2","0","2","6","-","0","3","-","0","8">>, Null,
                  <<<<"5","K">>, NullEntry>>)

\* the six pages of URLS, in order
RawIRLists ==
    {<<PageFailed, PageFailed, PageFailed, PageFailed, PageFailed, PageFailed>>,
     <<Page(<<IrCityRun, IrCityAgain>>), PageNoMarker, PageNoArray, PageFailed, Page(<<>>), PageFailed>>,
     <<PageNoMarker, Page(<<IrHillRun, IrCityRun, IrNameless>>), PageFailed, PageNoArray, PageFailed, PageFailed>>,
     <<Page(<<IrCityRun>>), PageFailed, Page(<<IrCityAgain, IrHillRun>>), PageNoMarker, Page(<<IrHillRun, IrNameless>>), PageNoArray>>,
     <<Page(<<IrCityRun, IrBroken, IrHillRun>>), Page(<<IrNameless>>), PageFailed, PageNoMarker, PageNoArray, PageFailed>>}

RawBhaago(slug, name, startDate, endDate) ==
    [slug |-> slug, name |-> name, startDate |-> startDate, endDate |-> endDate]

BhPuneRun   == RawBhaago(<<"p","u","n","e","-","r","u","n","-","1","2">>, <<"P","u","n","e"," ","R","u","n">>, <<"2","0","2","6","-","0","3","-","0","8">>, <<"2","0","2","6","-","0","3","-","0","9">>)
BhGoaRun    == RawBhaago(<<"g","o","a","-","r","u","n","-","1","3">>, <<"G","o","a"," ","R","u","n">>, <<"2","0","2","6","-","0","3","-","0","8">>, Null)

RawBhaagoLists == {<<>>, <<BhPuneRun>>, <<BhGoaRun, BhPuneRun>>}

RawTownscript(name, startDate, endDate, url) ==
    [name |-> name, startDate |-> startDate, endDate |-> endDate, url |-> url]

TsLakeRun   == RawTownscript(<<"L","a","k","e"," ","R","u","n"," ","1","0"," ","K">>, <<"2","0","2","6","-","0","3","-","1","0","T","0","2",":","0","0",":","0","0","+","0","5",":","3","0">>, Null,
                             <<"t","o","w","n","s","c","r","i","p","t",".","c","o","m","/","/","e","/","l","a","k","e","-","r","u","n","?","x">>)
TsLakeApril == RawTownscript(<<"L","a","k","e"," ","H","a","l","f"," ","M","a","r","a","t","h","o","n">>, <<"2","0","2","6","-","0","4","-","1","0">>, <<"2","0","2","6","-","0","4","-","1","1">>,
                             <<"t","o","w","n","s","c","r","i","p","t",".","c","o","m","/","e","/","l","a","k","e","-","r","u","n">>)
TsNameless  == RawTownscript(Null, <<"2","0","2","6","-","0","3","-","1","1">>, Null, Null)
TsUndated   == RawTownscript(<<"N","i","g","h","t"," ","U","l","t","r","a">>, <<"T","B","A">>, Null, <<"t","o","w","n","s","c","r","i","p","t",".","c","o","m","/","e","/","n","i","g","h","t">>)

\* the JSON-LD blocks of the listing page
RawTownscriptLists ==
    {<<>>, <<Block(<<TsLakeRun, TsLakeApril>>)>>, <<Block(<<TsNameless, TsLakeRun>>)>>,
     <<Block(<<TsLakeRun, TsUndated, TsLakeApril>>)>>,
     <<NotJSON, Block(<<TsLakeRun>>)>>,
     <<Block(<<TsUndated>>), Block(<<TsLakeApril>>)>>}

RawManual(title, startDate, endDate, distances) ==
    [title |-> title, startDate |-> startDate, endDate |-> endDate,
     distances |-> distances]

MnFunRun      == RawManual(<<"F","u","n"," ","R","u","n","!">>, <<"2","0","2","6","-","0","3","-","1","2">>, Null, <<<<"5","K">>>>)
MnFunRunApril == RawManual(<<"F","u","n"," ","R","u","n","!">>, <<"2","0","2","6","-","0","4","-","1","2">>, <<"2","0","2","6","-","0","4","-","1","3">>, <<<<"5","K">>>>)
MnUntitled    == RawManual(Null, <<"2","0","2","6","-","0","3","-","1","3">>, Null, <<>>)

RawManualLists == {<<>>, <<MnFunRun, MnFunRunApril>>, <<MnUntitled, MnFunRun>>}

\* the region parameter of the request that reads the aggregation result
RegionQueries == {[NoQuery EXCEPT !.region = r] : r \in {<<>>, All, India, Global}}

InitNormRun ==
    run \in [pc : {"raw"}, ir : RawIRLists, bh : RawBhaagoLists,
             ts : RawTownscriptLists, manual : RawManualLists,
             t : {StartNow}, off : TzOffsets,
             calls : {<<>>}, r1 : {Rejected}, r2 : {Rejected}, r3 : {Rejected},
             loaded : {<<>>}, out : {<<>>}, q : {NoQuery}, served : {<<>>}]

\* the three extractors and loadManualEvents on the records drawn
Extract ==
    /\ run.pc = "raw"
    /\ LET irCalls == IRCallsFrom(run.ir, {})
           bhCalls == BhaagoCalls(run.bh)
           tsCalls == TSBlocksCalls(run.ts)
           mnCalls == ManualCalls(run.manual)
       IN  run' = [run EXCEPT
                     !.pc = "extracted",
                     !.calls = irCalls \o bhCalls \o tsCalls \o mnCalls,
                     !.r1 = Fulfilled(Results(irCalls)),
                     !.r2 = Fulfilled(Results(bhCalls)),
                     !.r3 = Fulfilled(TownscriptBatch(tsCalls)),
                     !.loaded = Results(mnCalls)]
    /\ UNCHANGED <<cache, edge, variant, now, ticks, tz, reqs, prewarm, sites, sent>>

\* fetchAllEvents on what the extractors returned
AggregateExtracted ==
    /\ run.pc = "extracted"
    /\ run' = [run EXCEPT
                 !.pc = "aggregated",
                 !.out = fetchAllEvents(run.r1, run.r2, run.r3, run.loaded,
                                        run.t, run.off)]
    /\ UNCHANGED <<cache, edge, variant, now, ticks, tz, reqs, prewarm, sites, sent>>

\* applyFilters(result, {region}) of a request answered from that result
FilterResult ==
    /\ run.pc = "aggregated"
    /\ \E q \in RegionQueries :
          run' = [run EXCEPT !.pc = "served", !.q = q,
                             !.served = applyFilters(run.out, q, run.off)]
    /\ UNCHANGED <<cache, edge, variant, now, ticks, tz, reqs, prewarm, sites, sent>>

InitNorm == InitNormRun /\ InitIdleServer

NextNorm == Extract \/ AggregateExtracted \/ FilterResult

SpecNorm == InitNorm /\ [][NextNorm]_vars

\* the filter on given lists, and the extractors' results aggregated and filtered
InitFn == (InitFilterRun \/ InitNormRun) /\ InitIdleServer

NextFn == ApplyFilter \/ Extract \/ AggregateExtracted \/ FilterResult

SpecFn == InitFn /\ [][NextFn]_vars

-----------------------------------------------------------------------------
(* Properties of the region filter and of the normalisers *)

\* C15: region=india keeps exactly the events of region 'India', region=global
\* exactly the others, absent or 'all' every event; every normaliser and the
\* manual loader produce region 'India', so every event of an aggregation
\* result has region 'India' and region=global on such a result keeps nothing.
C15_RegionFilter ==
    /\ run.pc = "filtered" =>
          run.byRegion =
              CASE run.q.region = India ->
                       SelectSeq(run.events, LAMBDA e : e.region = "India")
                [] run.q.region = Global ->
                       SelectSeq(run.events, LAMBDA e : e.region # "India")
                [] OTHER -> run.events
    /\ run.pc \in {"extracted", "aggregated", "served"} =>
          /\ \A i \in DOMAIN run.calls : run.calls[i].result.region = "India"
          /\ \A i \in DOMAIN run.out : run.out[i].region = "India"
    /\ run.pc = "served" =>
          run.served = IF run.q.region = Global THEN <<>> ELSE run.out

\* region=global on an aggregation result that holds events of all four
\* sources keeps none of them
C15_Witness ==
    /\ run.pc = "served"
    /\ run.q.region = Global
    /\ {run.out[i].source : i \in DOMAIN run.out} =
           {"indiarunning.com", "bhaagoindia.com", "townscript.com", "manual"}
    /\ run.served = <<>>

\* C16 (as claimed): no two events of an aggregation result have the same id.
C16_UniqueIds ==
    run.pc \in {"aggregated", "served"} =>
        \A i, j \in DOMAIN run.out : i # j => run.out[i].id # run.out[j].id

\* the source record of a normaliser call carries no end date
NoEndDate(c) ==
    IF c.fn = "normaliseIR" THEN ~Truthy(Or(c.arg.eventEnd, c.arg.endDate))
    ELSE ~Truthy(c.arg.endDate)

\* C17 (as claimed): an Event normalised from a source record without an end
\* date has endDate equal to its startDate, whichever the normaliser.
C17_EndDateDefault ==
    run.pc \in {"extracted", "aggregated", "served"} =>
        \A i \in DOMAIN run.calls :
            NoEndDate(run.calls[i]) =>
                run.calls[i].result.endDate = run.calls[i].result.startDate

\* the source record of a normaliser call carries no title and no name
NoTitle(c) ==
    CASE c.fn = "normaliseIR" -> ~Truthy(Or(c.arg.title, c.arg.name))
      [] c.fn = "loadManualEvents" -> ~Truthy(c.arg.title)
      [] OTHER -> ~Truthy(c.arg.name)

\* C18 (as claimed): every Event a normaliser produces, and every event of an
\* aggregation result, has a non-empty title; it is 'Unnamed Event' when the
\* source record carries no title or name.
C18_TitleNonEmpty ==
    run.pc \in {"extracted", "aggregated", "served"} =>
        /\ \A i \in DOMAIN run.calls :
              /\ Truthy(run.calls[i].result.title)
              /\ NoTitle(run.calls[i]) => run.calls[i].result.title = UnnamedEvent
        /\ \A i \in DOMAIN run.out : Truthy(run.out[i].title)

-----------------------------------------------------------------------------
(* Properties of the edge variant and of the error responses *)

\* C19: in the edge variant a read that finds an entry (stored less than 6
\* hours ago) is answered from it with cached = true and starts no
\* aggregation; a read that finds none starts an aggregation, and when that
\* succeeds the events and fetchedAt are stored together and the answer has
\* cached = false; when it fails the answer is 500 and carries no events, even
\* if an entry exists by then.
C19_EdgeRead ==
    [][variant = "edge" =>
          \A i \in Slots :
              /\ (ReadHits(i) \/ ReadMisses(i)) =>
                    IF edge.present /\ (now - edge.fetchedAt) < 6 * 60
                    THEN /\ ReadHits(i)
                         /\ sent'.resp.status = 200 /\ sent'.resp.cached
                         /\ sent'.resp.total = Len(edge.events)
                         /\ sent'.resp.fetchedAt = edge.fetchedAt
                         /\ reqs' = reqs /\ edge' = edge
                    ELSE ReadMisses(i)
              /\ (ReadAnswered(i) /\ ~Throws) =>
                    /\ sent'.to = i /\ sent'.resp.status = 200 /\ ~sent'.resp.cached
                    /\ sent'.resp.total = Len(Aggregated)
                    /\ edge' = [present |-> TRUE, events |-> Aggregated,
                                fetchedAt |-> sent'.resp.fetchedAt]
                    /\ sent'.resp.fetchedAt = now
              /\ (ReadAnswered(i) /\ Throws) =>
                    /\ sent'.to = i /\ sent'.resp.status = 500
                    /\ sent'.resp.events = <<>>
                    /\ ~sent'.resp.cached /\ ~sent'.resp.stale
                    /\ edge' = edge]_vars

\* a read whose aggregation failed is answered 500 although an expired entry
\* with events is still stored
C19_Witness ==
    /\ variant = "edge"
    /\ sent.to # 0 /\ sent.kind = "read" /\ sent.resp.status = 500
    /\ edge.present /\ edge.events # <<>>

\* C20 (as claimed): a 500 response carries only the generic message, except
\* the one of the edge variant's refresh.
C20_NoErrorDetail ==
    (/\ sent.to # 0
     /\ sent.resp.status = 500
     /\ ~(variant = "edge" /\ sent.kind = "refresh"))
        => sent.resp.error = "generic"

-----------------------------------------------------------------------------
(* Properties of the in-process cache record under interleaving *)

\* the pre-warm promise settles in this step
PrewarmSettles == prewarm = "running" /\ prewarm' = "settled"

\* some aggregation finishes in this step
AggregationFinishes ==
    PrewarmSettles \/ \E i \in Slots : ReadAnswered(i) \/ RefreshAnswered(i)

\* C21: in the in-process variant the cache record changes only in a step
\* in which an aggregation finishes successfully, and such a step stores that
\* aggregation's events together with that run's timestamp (the arrival time
\* of a read, the finish time of a refresh or of the pre-warm), whatever the
\* record held before, so that the last aggregation to finish wins; a failed
\* aggregation leaves the record alone; events is null exactly when fetchedAt
\* is 0.
C21_AtomicReplace ==
    [][variant = "inproc" =>
        /\ (~cache.hasEvents) <=> (cache.fetchedAt = 0)
        /\ (~cache'.hasEvents) <=> (cache'.fetchedAt = 0)
        /\ cache' # cache => AggregationFinishes /\ ~Throws
        /\ AggregationFinishes /\ Throws => cache' = cache
        /\ PrewarmSettles /\ ~Throws =>
              cache' = [events |-> Aggregated, hasEvents |-> TRUE, fetchedAt |-> now]
        /\ \A i \in Slots :
              /\ RefreshAnswered(i) /\ ~Throws =>
                    cache' = [events |-> Aggregated, hasEvents |-> TRUE,
                              fetchedAt |-> now]
              /\ ReadAnswered(i) /\ ~Throws =>
                    cache' = [events |-> Aggregated, hasEvents |-> TRUE,
                              fetchedAt |-> reqs[i].now0]
    ]_vars

\* every aggregation has finished, and the one that finished last was a read
\* that had arrived before the clock advanced: the record holds what that
\* read was answered with
C21_Witness ==
    /\ variant = "inproc"
    /\ prewarm = "settled"
    /\ \A i \in Slots : reqs[i].pc = "idle"
    /\ sent.kind = "read" /\ sent.resp.status = 200 /\ ~sent.resp.cached
    /\ cache.hasEvents
    /\ cache.fetchedAt = sent.resp.fetchedAt
    /\ cache.fetchedAt < now
    /\ Len(cache.events) > 0

\* C22: the in-process server starts with exactly one pre-warm aggregation
\* under way and never starts another; when it succeeds the cache holds its
\* result, stamped with the time it finished; when it fails nothing but the
\* pre-warm itself changes (the cache stays as it was, no request is touched,
\* nothing is sent), and a read that arrives while the cache is empty starts
\* an aggregation of its own.
C22_Prewarm ==
    /\ variant = "inproc" => prewarm = "running"
    /\ [][variant = "inproc" =>
            /\ prewarm' = "running" => prewarm = "running"
            /\ PrewarmSettles /\ ~Throws =>
                  cache' = [events |-> Aggregated, hasEvents |-> TRUE,
                            fetchedAt |-> now]
            /\ PrewarmSettles /\ Throws =>
                  cache' = cache /\ reqs' = reqs /\ sent' = NoSent
            /\ \A i \in Slots :
                  ~cache.hasEvents /\ (ReadHits(i) \/ ReadMisses(i)) => ReadMisses(i)
       ]_vars

\* the pre-warm has failed, the cache is still empty and a read that arrived
\* later is running its own aggregation
C22_Witness ==
    /\ variant = "inproc"
    /\ prewarm = "settled"
    /\ ~cache.hasEvents
    /\ \E i \in Slots :
          reqs[i].pc = "fetching" /\ reqs[i].kind = "read" /\ reqs[i].now0 > StartNow

-----------------------------------------------------------------------------
(* Properties of the extractors on malformed data *)

\* the events fetchTownscript returned contain the normalisation of item e
TownscriptReturned(e) ==
    \E n \in DOMAIN run.r3.value : run.r3.value[n] = normaliseTownscript(e)

\* C23: fetchTownscript skips malformed data item by item: every item with a
\* parseable start date, in whatever JSON block it stands and whatever
\* stands beside it, is among the events returned.
C23_ItemGranularity ==
    run.pc # "raw" =>
        \A b \in DOMAIN run.ts :
            run.ts[b].json =>
                \A k \in DOMAIN run.ts[b].items :
                    LET e == run.ts[b].items[k]
                    IN  Truthy(e.startDate) /\ ~TownscriptThrows(e) => TownscriptReturned(e)

\* what does hold: a block that is not JSON, or a block cut short by a
\* throwing item, costs no other block its items
C23_OtherBlocksKept ==
    run.pc # "raw" =>
        \A b \in DOMAIN run.ts :
            (run.ts[b].json /\ \A k \in DOMAIN run.ts[b].items :
                                  ~TownscriptThrows(run.ts[b].items[k]))
            => \A k \in DOMAIN run.ts[b].items :
                  Truthy(run.ts[b].items[k].startDate)
                      => TownscriptReturned(run.ts[b].items[k])

\* the records of the listing pages that gave an events array, in page order
IRRecords == Flatten([p \in DOMAIN run.ir |-> run.ir[p].events])

\* the items of the JSON-LD blocks that parsed, in page order
TownscriptItems ==
    Flatten([b \in DOMAIN run.ts |-> IF run.ts[b].json THEN run.ts[b].items ELSE <<>>])

\* C24: every normaliser is total: no source record, whatever it lacks
\* (categories absent, a null entry in categories, an unparseable date string,
\* no name, no end date), makes normaliseIR or normaliseTownscript raise.
C24_NormalisersTotal ==
    run.pc # "raw" =>
        /\ \A k \in DOMAIN IRRecords : ~IRThrows(IRRecords[k])
        /\ \A k \in DOMAIN TownscriptItems : ~TownscriptThrows(TownscriptItems[k])

\* the source-native key of a listing record: e.id || e.slug
IRKey(e) == Or(e.id, e.slug)

IRFirstWithKey(k) ==
    IRRecords[CHOOSE i \in DOMAIN IRRecords :
                 IRKey(IRRecords[i]) = k /\ \A j \in 1..(i - 1) : IRKey(IRRecords[j]) # k]

\* C25: fetchIndiaRunning is fulfilled whatever pages fail, and returns
\* exactly one event per distinct key e.id || e.slug among the records of the
\* pages that gave an events array, each built from the first record of its
\* key in page order; pages that failed to load, lack the marker or hold no
\* array add nothing.
C25_FirstSeenWins ==
    run.pc # "raw" =>
        LET keys == {IRKey(IRRecords[k]) : k \in DOMAIN IRRecords}
        IN  /\ run.r1.status = "fulfilled"
            /\ Len(run.r1.value) = Cardinality(keys)
            /\ \A k \in keys :
                  \E n \in DOMAIN run.r1.value :
                      run.r1.value[n] = normaliseIR(IRFirstWithKey(k))

\* what does hold: the same, for listings none of whose records makes
\* normaliseIR throw
C25_FirstSeenWinsUnlessThrown ==
    (\A k \in DOMAIN IRRecords : ~IRThrows(IRRecords[k])) => C25_FirstSeenWins

\* C26 (as claimed): in the in-process variant cache.fetchedAt never
\* decreases.
C26_FetchedAtMonotone ==
    [][variant = "inproc" => cache'.fetchedAt >= cache.fetchedAt]_vars

\* C26 (amended): a refresh or the pre-warm stamps the cache with the time it
\* finishes, which is never below the timestamp in place; a read stamps it
\* with the time the request arrived; the timestamp is never in the future,
\* and it decreases only when a read finishes whose arrival is older than the
\* timestamp in place.
C26_FetchedAtStamps ==
    [][variant = "inproc" =>
        /\ cache'.fetchedAt <= now'
        /\ PrewarmSettles /\ ~Throws =>
              cache'.fetchedAt = now /\ cache'.fetchedAt >= cache.fetchedAt
        /\ \A i \in Slots :
              /\ RefreshAnswered(i) /\ ~Throws =>
                    cache'.fetchedAt = now /\ cache'.fetchedAt >= cache.fetchedAt
              /\ ReadAnswered(i) /\ ~Throws => cache'.fetchedAt = reqs[i].now0
        /\ cache'.fetchedAt < cache.fetchedAt =>
              \E i \in Slots :
                  ReadAnswered(i) /\ ~Throws /\ reqs[i].now0 < cache.fetchedAt
    ]_vars

\* a read that arrived at least one clock step ago has just stamped the cache
\* with its arrival time while a refresh is still in flight
C26_Witness ==
    /\ variant = "inproc"
    /\ sent.kind = "read" /\ sent.resp.status = 200 /\ ~sent.resp.cached
    /\ cache.fetchedAt = sent.resp.fetchedAt
    /\ cache.fetchedAt + TickStep <= now
    /\ \E i \in Slots : reqs[i].pc = "fetching" /\ reqs[i].kind = "refresh"

\* a refresh request on slot i reaches its await in this step
RefreshStarts(i) ==
    reqs[i].pc = "idle" /\ reqs'[i].pc = "fetching" /\ reqs'[i].kind = "refresh"

\* C27 (as claimed): in both variants a refresh whose aggregation fails leaves
\* the stored snapshot as it was before the refresh: neither the step that
\* starts a refresh nor the step in which its aggregation fails changes the
\* in-process record or the edge entry.
C27_FailedRefreshKeepsSnapshot ==
    [][\A i \in Slots :
          RefreshStarts(i) \/ (RefreshAnswered(i) /\ Throws) =>
              cache' = cache /\ edge' = edge
    ]_vars

\* C27 (amended): in the in-process variant neither step of a failing refresh
\* changes the cache record, and a read that then arrives within the TTL of
\* the record is answered from it without an aggregation; in the edge variant
\* a refresh deletes the entry when it starts, a failing refresh stores
\* nothing, and a read that finds no entry aggregates.
C27_FailedRefresh ==
    [][\A i \in Slots :
          /\ variant = "inproc" =>
                /\ RefreshStarts(i) \/ (RefreshAnswered(i) /\ Throws) => cache' = cache
                /\ CacheFresh(cache, now) /\ (ReadHits(i) \/ ReadMisses(i)) =>
                      ReadHits(i) /\ sent'.resp = HitResponse(cache, sent'.query, tz)
          /\ variant = "edge" =>
                /\ RefreshStarts(i) => edge' = NoEntry
                /\ RefreshAnswered(i) /\ Throws => edge' = edge
                /\ ~edge.present /\ (ReadHits(i) \/ ReadMisses(i)) => ReadMisses(i)
    ]_vars

\* a refresh of the in-process server has just failed with the snapshot
\* still in the cache
C27_Witness ==
    /\ variant = "inproc"
    /\ sent.kind = "refresh" /\ sent.resp.status = 500
    /\ cache.hasEvents /\ Len(cache.events) > 0

\* C28 (as claimed): a response flagged stale reports a fetchedAt at least
\* 6 hours older than the time of the response.
C28_StaleIsExpired ==
    variant = "inproc" /\ sent.resp.stale => now - sent.resp.fetchedAt >= CACHE_TTL_MS

\* C28 (amended): a response is flagged stale only when it answers a read
\* that missed the cache on arrival and whose own aggregation failed; it
\* carries the snapshot that is in the cache at the moment of the failure,
\* with that snapshot's fetchedAt, which is never in the future but may be
\* less than 6 hours old when another aggregation stored it meanwhile.
C28_StaleIsCurrentSnapshot ==
    [][variant = "inproc" /\ sent'.resp.stale =>
          \E i \in Slots :
              /\ sent'.to = i /\ sent'.kind = "read"
              /\ ReadAnswered(i) /\ Throws
              /\ cache.hasEvents /\ cache' = cache
              /\ sent'.resp.cached /\ sent'.resp.status = 200
              /\ sent'.resp.fetchedAt = cache.fetchedAt
              /\ sent'.resp.fetchedAt <= now
              /\ sent'.resp.total = Len(cache.events)
              /\ sent'.resp.events = applyFilters(cache.events, reqs[i].query, tz)
    ]_vars

\* a read has just been answered with a snapshot flagged stale that is less
\* than 6 hours old
C28_Witness ==
    /\ variant = "inproc"
    /\ sent.kind = "read" /\ sent.resp.stale
    /\ now - sent.resp.fetchedAt < CACHE_TTL_MS
    /\ sent.resp.total > 0

-----------------------------------------------------------------------------
(* One request from its arrival to its response, extractor by extractor *)

\* a promise of Promise.allSettled([...]) before and after it settles
Pending == [settled |-> FALSE, result |-> Rejected]

Settled(r) == [settled |-> TRUE, result |-> r]

\* a GET /api/events or a POST /api/refresh that has reached the server
InitReqRun ==
    run \in [pc : {"arrived"}, kind : {"read"}, query : Queries, now0 : {0},
             p : {<<Pending, Pending, Pending>>}, started : {0}, merges : {0},
             responses : {0}, threw : {FALSE}, out : {<<>>}]
          \cup
            [pc : {"arrived"}, kind : {"refresh"}, query : {NoQuery}, now0 : {0},
             p : {<<Pending, Pending, Pending>>}, started : {0}, merges : {0},
             responses : {0}, threw : {FALSE}, out : {<<>>}]

\* the cache the request finds: empty, 3 hours old or 6 hours old
InitReq ==
    /\ InitReqRun
    /\ variant \in {"inproc", "edge"}
    /\ cache \in IF variant = "edge"
                 THEN {[events |-> <<>>, hasEvents |-> FALSE, fetchedAt |-> 0]}
                 ELSE {[events |-> <<>>, hasEvents |-> FALSE, fetchedAt |-> 0],
                       CacheOf(<<EvCityRun>>, StartNow - TickStep),
                       CacheOf(<<EvCityRun>>, StartNow - CACHE_TTL_MS)}
    /\ edge \in IF variant = "inproc"
                THEN {NoEntry}
                ELSE {NoEntry, EntryOf(<<EvCityRun>>, StartNow - TickStep),
                      EntryOf(<<EvCityRun>>, StartNow - CACHE_TTL)}
    /\ now = StartNow
    /\ ticks = 0
    /\ tz = 0
    /\ reqs = [i \in Slots |-> IdleReq]
    /\ prewarm = "none"
    /\ sites = SitesDown
    /\ sent = NoSent

\* the handler up to its await: a read that hits answers at once; a read that
\* misses and every refresh call fetchAllEvents, which starts the three
\* extractors (the edge refresh deletes the entry first)
ReqArrive ==
    /\ run.pc = "arrived"
    /\ LET hit == /\ run.kind = "read"
                  /\ IF variant = "inproc" THEN CacheFresh(cache, now)
                                           ELSE EdgeMatch(edge, now)
       IN  IF hit
           THEN /\ run' = [run EXCEPT !.pc = "responded", !.responses = @ + 1]
                /\ sent' = Sent(1, "read", run.query,
                                IF variant = "inproc"
                                THEN HitResponse(cache, run.query, tz)
                                ELSE EdgeResponse(edge.events, edge.fetchedAt, TRUE,
                                                  run.query, tz))
                /\ edge' = edge
           ELSE /\ run' = [run EXCEPT !.pc = "fetching", !.started = @ + 1,
                                      !.now0 = now]
                /\ sent' = NoSent
                /\ edge' = IF variant = "edge" /\ run.kind = "refresh"
                           THEN NoEntry ELSE edge
    /\ UNCHANGED <<cache, variant, now, ticks, tz, reqs, prewarm, sites>>

\* extractor k of fetchAllEvents settles, fulfilled or rejected
ExtractorSettles(k) ==
    /\ run.pc = "fetching"
    /\ ~run.p[k].settled
    /\ \E f \in Feeds :
          LET r == IF k = 1 THEN f.r1 ELSE IF k = 2 THEN f.r2 ELSE f.r3
          IN  run' = [run EXCEPT !.p[k] = Settled(r)]
    /\ sent' = NoSent
    /\ UNCHANGED <<cache, edge, variant, now, ticks, tz, reqs, prewarm, sites>>

\* fetchAllEvents on each combination of outcomes the feeds can deliver to a
\* request that arrives at StartNow on a server at UTC: whether it rejects,
\* and the value it resolves with
MergeResults ==
    {[in    |-> in,
      threw |-> fetchAllEventsThrows(in[1], in[2], in[3], in[4]),
      out   |-> IF fetchAllEventsThrows(in[1], in[2], in[3], in[4]) THEN <<>>
                ELSE fetchAllEvents(in[1], in[2], in[3], in[4], in[5], in[6])] :
        in \in {f.r1 : f \in Feeds} \X {f.r2 : f \in Feeds} \X {f.r3 : f \in Feeds}
                  \X {f.manual : f \in Feeds} \X {StartNow} \X {0}}

MergeResult(r1, r2, r3, manual, t, off) ==
    CHOOSE m \in MergeResults : m.in = <<r1, r2, r3, manual, t, off>>

\* (mutant) the merge as soon as one extractor has settled
MergeSettled_Any ==
    /\ run.pc = "fetching"
    /\ \E k \in 1..3 : run.p[k].settled
    /\ \E manual \in {f.manual : f \in Feeds} :
          LET m == MergeResult(run.p[1].result, run.p[2].result, run.p[3].result,
                               manual, now, tz)
          IN  run' = [run EXCEPT !.pc = "merged", !.merges = @ + 1,
                                 !.threw = m.threw, !.out = m.out]
    /\ sent' = NoSent
    /\ UNCHANGED <<cache, edge, variant, now, ticks, tz, reqs, prewarm, sites>>

\* the continuation of await Promise.allSettled: concat, loadManualEvents,
\* dedup, past filter and sort, which resolves or rejects fetchAllEvents
MergeSettled ==
    /\ run.pc = "fetching"
    /\ \A k \in 1..3 : run.p[k].settled
    /\ \E manual \in {f.manual : f \in Feeds} :
          LET m == MergeResult(run.p[1].result, run.p[2].result, run.p[3].result,
                               manual, now, tz)
          IN  run' = [run EXCEPT !.pc = "merged", !.merges = @ + 1,
                                 !.threw = m.threw, !.out = m.out]
    /\ sent' = NoSent
    /\ UNCHANGED <<cache, edge, variant, now, ticks, tz, reqs, prewarm, sites>>

\* the handler after its await: the try branch stores and answers, the catch
\* branch answers
Respond ==
    /\ run.pc = "merged"
    /\ run' = [run EXCEPT !.pc = "responded", !.responses = @ + 1]
    /\ cache' = IF variant = "inproc" /\ ~run.threw
                THEN CacheOf(run.out, IF run.kind = "read" THEN run.now0 ELSE now)
                ELSE cache
    /\ edge' = IF variant = "edge" /\ ~run.threw THEN EntryOf(run.out, now) ELSE edge
    /\ sent' = Sent(1, run.kind, run.query,
                    IF run.kind = "refresh"
                    THEN (IF run.threw THEN RefreshErrorResponse
                                       ELSE RefreshResponse(run.out))
                    ELSE IF variant = "inproc"
                    THEN (IF run.threw THEN CatchResponse(cache, run.query, tz)
                          ELSE FreshResponse(run.out, run.now0, run.query, tz))
                    ELSE (IF run.threw THEN EdgeErrorResponse
                          ELSE EdgeResponse(run.out, now, FALSE, run.query, tz)))
    /\ UNCHANGED <<variant, now, ticks, tz, reqs, prewarm, sites>>

NextReq ==
    \/ ReqArrive
    \/ \E k \in 1..3 : ExtractorSettles(k)
    \/ MergeSettled
    \/ Respond

\* the event loop runs every continuation that is ready, and every extractor
\* settles (each request of an extractor has a timeout)
SpecReq ==
    /\ InitReq
    /\ [][NextReq]_vars
    /\ WF_vars(ReqArrive)
    /\ \A k \in 1..3 : WF_vars(ExtractorSettles(k))
    /\ WF_vars(MergeSettled)
    /\ WF_vars(Respond)

\* C29: every request is answered: it eventually gets a response, exactly
\* one, with status 200 or 500; it calls fetchAllEvents at most once and
\* fetchAllEvents merges at most once, only when all three extractors have
\* settled.
C29_Terminates ==
    /\ [](run.started <= 1 /\ run.merges <= run.started /\ run.responses <= 1)
    /\ [][run'.merges > run.merges => \A k \in 1..3 : run.p[k].settled]_vars
    /\ [][run'.responses > run.responses =>
            sent'.to = 1 /\ sent'.resp.status \in {200, 500}]_vars
    /\ [][run.pc = "responded" =>
            run'.pc = "responded" /\ run'.responses = run.responses]_vars
    /\ <>(run.pc = "responded" /\ run.responses = 1)

\* a read that missed has been answered with status 500: its three
\* extractors settled, two of them rejected, and the merge threw
C29_Witness ==
    /\ run.pc = "responded"
    /\ run.kind = "read"
    /\ run.started = 1 /\ run.merges = 1 /\ run.responses = 1
    /\ \A k \in 1..3 : run.p[k].settled
    /\ run.p[2].result = Rejected /\ run.p[3].result = Rejected
    /\ run.threw
    /\ sent.to = 1 /\ sent.resp.status = 500

====
